---- MODULE Spec2Model ----
(***************************************************************************)
(* Model of the relay's Isnad CAPTCHA auth layer                           *)
(* (relay-server/src/auth.rs): the AuthState store with its two            *)
(* independently locked maps, and the handlers request_challenge,          *)
(* verify_challenge, check_token together with AuthState::is_peer_verified *)
(* and AuthState::cleanup, run by concurrent workers.                      *)
(*                                                                         *)
(* Time is counted in units of 1/TicksPerSec second so that chrono's       *)
(* Duration::num_seconds (truncation to whole seconds) is a real           *)
(* conversion.  Uuid::new_v4 and SHA-256 are modelled as fresh values and  *)
(* an injective function.  The external CaptchaVerifier is an oracle whose *)
(* verdict is a nondeterministic input.                                    *)
(*                                                                         *)
(* The agent's side of the handshake                                       *)
(* (harbor-agent/src/captcha_solver.rs, authenticate_with_relay) is the    *)
(* client of the model: it talks to an auth endpoint whose replies are     *)
(* inputs, any status with any body.                                       *)
(*                                                                         *)
(* The solver of the same file (solve_challenge, solve_task,               *)
(* solve_pattern, answer_question, try_arithmetic) is a set of pure        *)
(* functions; each is an operator, applied by one action to inputs that    *)
(* the initial state draws.  i64 is scaled to IntBits bits and f64 to      *)
(* SigBits significand bits; an arithmetic overflow panics or wraps        *)
(* around, as the build's overflow checks decide.                          *)
(*                                                                         *)
(* The agent's network state (harbor-agent/src/state.rs NetworkState,      *)
(* api/network.rs start_network and stop_network): the handle behind its   *)
(* RwLock and the handler calls that read, store and take it, run as       *)
(* concurrent tasks.                                                       *)
(***************************************************************************)
EXTENDS Integers, FiniteSets, Sequences, TLC

\* ---- bounds of the model ------------------------------------------------
NumWorkers == 2
MaxChallenges == 2
MaxTicks == 2
TicksPerSec == 2
MaxCalls == 2
IntBits == 8
SigBits == 5
MaxLen == 4
MaxPredict == 2
MaxTasks == 2
MaxServices == 3

\* ---- program constants --------------------------------------------------
CHALLENGE_TTL_SECS == 60
TOKEN_TTL_SECS == 3600
OK == 200
NOT_FOUND == 404
FORBIDDEN == 403
INTERNAL_SERVER_ERROR == 500

Workers == 1 .. NumWorkers
Peers == {"alice", "mallory"}
NoPeer == "none"
NoWorker == 0
\* a well-formed challenge id that the oracle never generated
UnknownCid == 0
\* the expected answers the oracle may return with a challenge
ExpectedAnswers == {"answers_a", "answers_b"}
NoAnswers == "none"

VARIABLES now, ticks, pending, verified, pendingLock, verifiedLock,
          nextCid, nextUuid, pc, req, loc, res, consumed, minted,
          cl, sent, got, calls,
          overflow_checks, called, arg, ret,
          handle, services, running, netCall

\* the relay's state
relayVars == <<now, ticks, pending, verified, pendingLock, verifiedLock,
               nextCid, nextUuid, pc, req, loc, res, consumed, minted>>

\* the agent's state: the authenticate call under way, the requests it has
\* sent and the replies it has received in this call, the calls made so far
clientVars == <<cl, sent, got, calls>>

\* a call of one of the solver's functions: whether the build checks
\* arithmetic overflow, the function called, its argument and what the call
\* has left
solverVars == <<overflow_checks, called, arg, ret>>

\* the agent's network: the handle stored in NetworkState, the number of
\* network services created so far, the services that run, and each
\* start_network or stop_network call under way
netVars == <<handle, services, running, netCall>>

vars == <<now, ticks, pending, verified, pendingLock, verifiedLock,
          nextCid, nextUuid, pc, req, loc, res, consumed, minted,
          cl, sent, got, calls,
          overflow_checks, called, arg, ret,
          handle, services, running, netCall>>

\* ---- time ---------------------------------------------------------------
\* a conversion that rounds a started second up
NumSecondsRoundUp(d) == (d + TicksPerSec - 1) \div TicksPerSec

\* chrono::Duration::num_seconds: whole seconds, truncated towards zero
NumSeconds(d) ==
    IF d >= 0 THEN d \div TicksPerSec ELSE 0 - ((0 - d) \div TicksPerSec)

\* DateTime::timestamp: unix seconds of an instant
Timestamp(t) == t \div TicksPerSec

\* ---- tokens -------------------------------------------------------------
\* a token derived from the peer_id alone
generate_token_of_peer(peer_id, uuid, t) ==
    [peer |-> peer_id, uuid |-> 0, ts |-> 0]

\* generate_token: "isnad_" + hex(SHA-256(peer_id || uuid || timestamp));
\* the digest is modelled as the (injective) tuple of its inputs
generate_token(peer_id, uuid, t) ==
    [peer |-> peer_id, uuid |-> uuid, ts |-> Timestamp(t)]

NoToken == [peer |-> NoPeer, uuid |-> 0, ts |-> 0]
\* a token string no verification ever produced
BogusToken == [peer |-> "alice", uuid |-> 0, ts |-> 0]

\* ---- the maps -----------------------------------------------------------
MapInsert(m, k, v) == [x \in DOMAIN m \cup {k} |-> IF x = k THEN v ELSE m[x]]

MapRemove(m, k) == [x \in DOMAIN m \ {k} |-> m[x]]

\* a lookup that leaves the entry in place
MapKeep(m, k) == m

ChallengeFreshInclusive(issued_at, t) ==
    NumSeconds(t - issued_at) <= CHALLENGE_TTL_SECS

\* cleanup: the test of pending.retain(..)
ChallengeFresh(issued_at, t) ==
    NumSeconds(t - issued_at) < CHALLENGE_TTL_SECS

TokenFreshInclusive(verified_at, t) ==
    NumSeconds(t - verified_at) <= TOKEN_TTL_SECS

\* the liveness test shared by is_peer_verified, cleanup and check_token
TokenFresh(verified_at, t) ==
    NumSeconds(t - verified_at) < TOKEN_TTL_SECS

\* cleanup: pending.retain(..)
RetainPending(pend, t) ==
    [c \in {x \in DOMAIN pend : ChallengeFresh(pend[x].issued_at, t)}
        |-> pend[c]]

\* a sweep that clears the token map
RetainNone(ver, t) == << >>

\* cleanup: verified.retain(..)
RetainVerified(ver, t) ==
    [k \in {x \in DOMAIN ver : TokenFresh(ver[x].verified_at, t)}
        |-> ver[k]]

\* a removal that also purges what has expired by now
RemoveAndSweep(pend, c) == RetainPending(MapRemove(pend, c), now)

\* a removal keyed by the requester instead of the challenge id
RemoveAllOfPeer(pend, c) ==
    IF c \in DOMAIN pend
    THEN [x \in {y \in DOMAIN pend : pend[y].peer_id # pend[c].peer_id}
             |-> pend[x]]
    ELSE pend

\* pending.remove(&challenge_id): the map after the removal
RemovePending(pend, c) == MapRemove(pend, c)

\* AuthState::is_peer_verified: verified.values().any(..)
is_peer_verified(ver, t, peer_id) ==
    \E k \in DOMAIN ver :
        /\ ver[k].peer_id = peer_id
        /\ TokenFresh(ver[k].verified_at, t)

RemainingOffByOne(elapsed) == TOKEN_TTL_SECS - elapsed - 1

\* check_token: remaining_seconds of a live token
Remaining(elapsed) == TOKEN_TTL_SECS - elapsed

InvalidReply == [valid |-> FALSE, peer_id |-> NoPeer, remaining_seconds |-> 0]

\* a check that trusts map presence alone
CheckTokenReplyByPresence(ver, t, token) ==
    IF token \in DOMAIN ver
    THEN [valid |-> TRUE, peer_id |-> ver[token].peer_id,
          remaining_seconds |->
              Remaining(NumSeconds(t - ver[token].verified_at))]
    ELSE InvalidReply

\* check_token: the body of the CheckTokenResponse
CheckTokenReply(ver, t, token) ==
    IF token \in DOMAIN ver
    THEN LET agent == ver[token]
             elapsed == NumSeconds(t - agent.verified_at)
         IN IF elapsed < TOKEN_TTL_SECS
            THEN [valid |-> TRUE, peer_id |-> agent.peer_id,
                  remaining_seconds |-> Remaining(elapsed)]
            ELSE InvalidReply
    ELSE InvalidReply

\* a check_token that evicts the entry it finds expired
VerifiedAfterCheckEvict(ver, t, token) ==
    IF token \in DOMAIN ver /\ ~CheckTokenReply(ver, t, token).valid
    THEN MapRemove(ver, token) ELSE ver

\* check_token only holds a read guard: the map after the call
VerifiedAfterCheck(ver, t, token) == ver

VerdictIgnored(verdict) == TRUE

\* match auth.verifier.verify(..) { Ok(_) => token, Err(_) => 403 }
VerdictAllowsToken(verdict) == verdict = "ok"

PeerCheckSkipped(entry_peer, req_peer) == TRUE

\* a check that no submission passes
PeerNeverMatches(entry_peer, req_peer) == FALSE

\* if pending.peer_id != req.peer_id { return Err(FORBIDDEN) }
PeerMatches(entry_peer, req_peer) == entry_peer = req_peer

\* ---- per-worker state ---------------------------------------------------
\* aligned: the response's answer list has the length and the variant order
\* of the task list of the challenge it names
NoReq == [op |-> "none", peer_id |-> NoPeer, challenge_id |-> UnknownCid,
          aligned |-> TRUE, token |-> NoToken]

NoLoc == [cl_now |-> 0, challenge_id |-> UnknownCid,
          expected_answers |-> NoAnswers,
          entry_found |-> FALSE, entry_peer |-> NoPeer,
          oracle |-> "none", token |-> NoToken, at |-> 0,
          late |-> FALSE, lateMismatch |-> FALSE, stale |-> FALSE]

NoRes == [status |-> 0, error |-> "", challenge |-> UnknownCid,
          token |-> NoToken, expires_in_seconds |-> 0, peer_id |-> NoPeer,
          valid |-> FALSE, remaining_seconds |-> 0, verified |-> FALSE]

ErrorReply(status, error) == [NoRes EXCEPT !.status = status, !.error = error]

\* a reply that ships the expected answers along with the challenge
ChallengeReplyWithAnswers(challenge, expected_answers) ==
    [status |-> OK, challenge |-> challenge,
     expected_answers |-> expected_answers]

\* request_challenge: (StatusCode::OK, Json(ChallengeResponse { challenge })),
\* built where both outputs of the oracle are in scope
ChallengeReply(challenge, expected_answers) ==
    [NoRes EXCEPT !.status = OK, !.challenge = challenge]

\* ---- the solver: numbers -------------------------------------------------
\* i64 is modelled with IntBits bits and f64 with SigBits significand bits
\* (64 and 53 in the program); an f64's exponent range is not modelled.
RECURSIVE Pow2(_)
Pow2(k) == IF k = 0 THEN 1 ELSE 2 * Pow2(k - 1)

i64_MIN == -Pow2(IntBits - 1)
i64_MAX == Pow2(IntBits - 1) - 1

\* the value is an i64
InRange(x) == i64_MIN <= x /\ x <= i64_MAX

\* two's complement wrap-around of an arithmetic result
wrapping(x) == ((x - i64_MIN) % Pow2(IntBits)) + i64_MIN

Sign(x) == IF x < 0 THEN -1 ELSE 1
Abs(x) == IF x < 0 THEN -x ELSE x

\* a finite f64 is m * 2^e with m = 0 or 2^(SigBits-1) <= |m| < 2^SigBits;
\* the f64 nearest to s * (n / d) * 2^e (n >= 0, d > 0), ties to even
RECURSIVE F64Round(_, _, _, _)
F64Round(s, n, d, e) ==
    IF n = 0 THEN [m |-> 0, e |-> 0]
    ELSE IF n >= d * Pow2(SigBits) THEN F64Round(s, n, 2 * d, e + 1)
    ELSE IF n < d * Pow2(SigBits - 1) THEN F64Round(s, 2 * n, d, e - 1)
    ELSE LET q == n \div d
             rem == n % d
             up == 2 * rem > d \/ (2 * rem = d /\ q % 2 = 1)
             m == IF up THEN q + 1 ELSE q
         IN IF m = Pow2(SigBits)
            THEN [m |-> s * Pow2(SigBits - 1), e |-> e + 1]
            ELSE [m |-> s * m, e |-> e]

\* x as f64
f64_from(x) == F64Round(Sign(x), Abs(x), 1, 0)

\* a / b on f64, b non-zero
f64_div(a, b) ==
    F64Round(Sign(a.m) * Sign(b.m), Abs(a.m), Abs(b.m), a.e - b.e)

\* a * b on f64
f64_mul(a, b) ==
    F64Round(Sign(a.m) * Sign(b.m), Abs(a.m) * Abs(b.m), 1, a.e + b.e)

\* a - b on f64
f64_sub(a, b) ==
    IF b.m = 0 THEN a
    ELSE IF a.m = 0 THEN [b EXCEPT !.m = -b.m]
    ELSE LET emin == IF a.e < b.e THEN a.e ELSE b.e
             n == a.m * Pow2(a.e - emin) - b.m * Pow2(b.e - emin)
         IN F64Round(Sign(n), Abs(n), 1, emin)

\* a < b on f64
f64_lt(a, b) ==
    IF a.m <= 0 \/ b.m <= 0
    THEN IF a.m < 0 /\ b.m < 0
         THEN a.e > b.e \/ (a.e = b.e /\ a.m < b.m)
         ELSE a.m < b.m
    ELSE a.e < b.e \/ (a.e = b.e /\ a.m < b.m)

\* the literal 0.001
Tolerance == F64Round(1, 1, 1000, 0)

\* (w[0] - w[1]).abs() < 0.001
within_tolerance(a, b) ==
    LET diff == f64_sub(a, b)
    IN f64_lt([diff EXCEPT !.m = Abs(diff.m)], Tolerance)

\* the saturation of a cast to i64
saturating(x) ==
    IF x < i64_MIN THEN i64_MIN ELSE IF x > i64_MAX THEN i64_MAX ELSE x

\* a as i64 without round(): the fraction digits are dropped
trunc_as_i64(a) ==
    IF a.m = 0 THEN 0
    ELSE IF a.e >= 0
    THEN IF a.e >= IntBits
         THEN (IF a.m < 0 THEN i64_MIN ELSE i64_MAX)
         ELSE saturating(a.m * Pow2(a.e))
    ELSE IF -a.e > SigBits + 1 THEN 0
    ELSE Sign(a.m) * (Abs(a.m) \div Pow2(-a.e))

\* a.round() as i64: to the nearest integer, halves away from zero, then
\* the saturating cast
round_as_i64(a) ==
    IF a.m = 0 THEN 0
    ELSE IF a.e >= 0
    THEN IF a.e >= IntBits
         THEN (IF a.m < 0 THEN i64_MIN ELSE i64_MAX)
         ELSE saturating(a.m * Pow2(a.e))
    ELSE IF -a.e > SigBits + 1 THEN 0
    ELSE LET unit == Pow2(-a.e)
             q == Abs(a.m) \div unit
             rem == Abs(a.m) % unit
         IN Sign(a.m) * (IF 2 * rem >= unit THEN q + 1 ELSE q)

\* ---- the solver: solve_pattern -------------------------------------------
\* what a call leaves: a panic, or the value returned
Panic == [outcome |-> "panic", value |-> << >>]
Returned(value) == [outcome |-> "return", value |-> value]
NotCalled == [outcome |-> "none", value |-> << >>]

\* an arithmetic overflow panics under overflow checks and wraps otherwise
Checked(checks, overflowed, value) ==
    IF checks /\ overflowed THEN Panic ELSE Returned(value)

\* n predictions that are all one
Ones(n) == [k \in 1 .. n |-> 1]

\* vec![0; n]
Zeros(n) == [k \in 1 .. n |-> 0]

\* xs.windows(2).map(|w| w[1] - w[0]).collect()
Differences(xs) == [i \in 1 .. Len(xs) - 1 |-> wrapping(xs[i + 1] - xs[i])]

DifferencesOverflow(xs) ==
    \E i \in 1 .. Len(xs) - 1 : ~InRange(xs[i + 1] - xs[i])

\* a test that finds any values equal
AlwaysEqual(xs) == TRUE

\* a test that needs two windows at least
AllEqualOfSeveral(xs) ==
    /\ Len(xs) >= 3
    /\ \A i \in 1 .. Len(xs) - 1 : xs[i] = xs[i + 1]

\* xs.windows(2).all(|w| w[0] == w[1])
AllEqual(xs) == \A i \in 1 .. Len(xs) - 1 : xs[i] = xs[i + 1]

\* an update that leaves last as it is
KeepLast(last, d) == last

\* last += d
PlusAssign(last, d) == wrapping(last + d)

\* (0..n).map(|_| { last += d; last }).collect()
RECURSIVE Accumulate(_, _, _)
Accumulate(last, d, n) ==
    IF n = 0 THEN << >>
    ELSE LET next == PlusAssign(last, d)
         IN <<next>> \o Accumulate(next, d, n - 1)

RECURSIVE AccumulateOverflows(_, _, _)
AccumulateOverflows(last, d, n) ==
    /\ n > 0
    /\ \/ ~InRange(last + d)
       \/ AccumulateOverflows(wrapping(last + d), d, n - 1)

\* (0..n).map(|_| { last_diff += d2; last += last_diff; last }).collect()
RECURSIVE AccumulateSecond(_, _, _, _)
AccumulateSecond(last, last_diff, d2, n) ==
    IF n = 0 THEN << >>
    ELSE LET next_diff == PlusAssign(last_diff, d2)
             next == PlusAssign(last, next_diff)
         IN <<next>> \o AccumulateSecond(next, next_diff, d2, n - 1)

RECURSIVE AccumulateSecondOverflows(_, _, _, _)
AccumulateSecondOverflows(last, last_diff, d2, n) ==
    /\ n > 0
    /\ LET next_diff == wrapping(last_diff + d2)
       IN \/ ~InRange(last_diff + d2)
          \/ ~InRange(last + next_diff)
          \/ AccumulateSecondOverflows(wrapping(last + next_diff),
                                       next_diff, d2, n - 1)

\* given.windows(2).map(|w| w[1] as f64 / w[0] as f64).collect()
Ratios(given) ==
    [i \in 1 .. Len(given) - 1 |->
         f64_div(f64_from(given[i + 1]), f64_from(given[i]))]

\* ratios.windows(2).all(|w| (w[0] - w[1]).abs() < 0.001)
RatiosAgree(ratios) ==
    \A i \in 1 .. Len(ratios) - 1 : within_tolerance(ratios[i], ratios[i + 1])

\* (0..n).map(|_| { last *= r; last.round() as i64 }).collect()
RECURSIVE Scale(_, _, _)
Scale(last, r, n) ==
    IF n = 0 THEN << >>
    ELSE LET next == f64_mul(last, r)
         IN <<round_as_i64(next)>> \o Scale(next, r, n - 1)

\* a test that finds no sequence Fibonacci-like
never_fib(given) == FALSE

\* given.windows(3).all(|w| w[2] == w[0] + w[1])
is_fib(given) ==
    \A i \in 1 .. Len(given) - 2 :
        given[i + 2] = wrapping(given[i] + given[i + 1])

\* all() stops at the first window that fails, so a sum overflows only
\* behind windows that hold
is_fib_overflows(given) ==
    \E i \in 1 .. Len(given) - 2 :
        /\ ~InRange(given[i] + given[i + 1])
        /\ \A j \in 1 .. i - 1 :
               given[j + 2] = wrapping(given[j] + given[j + 1])

\* for _ in 0..n { seq.push(seq[len - 2] + seq[len - 1]) }, the pushed part
RECURSIVE Extend(_, _, _)
Extend(a, b, n) ==
    IF n = 0 THEN << >>
    ELSE LET next == wrapping(a + b)
         IN <<next>> \o Extend(b, next, n - 1)

RECURSIVE ExtendOverflows(_, _, _)
ExtendOverflows(a, b, n) ==
    /\ n > 0
    /\ \/ ~InRange(a + b)
       \/ ExtendOverflows(b, wrapping(a + b), n - 1)

\* a trial order that puts the Fibonacci-like rule before the quadratic one
RuleFibonacciFirst(given) ==
    LET diffs == Differences(given)
        second_diffs == Differences(diffs)
    IN IF Len(given) < 2 THEN "zeros"
       ELSE IF AllEqual(diffs) THEN "arithmetic"
       ELSE IF Len(given) >= 3 /\ is_fib(given) THEN "fibonacci"
       ELSE IF AllEqual(second_diffs) THEN "quadratic"
       ELSE IF (\A i \in 1 .. Len(given) : given[i] # 0)
                /\ RatiosAgree(Ratios(given)) THEN "geometric"
       ELSE "fallback"

\* the rule of solve_pattern that answers for the given values
Rule(given) ==
    LET diffs == Differences(given)
        second_diffs == Differences(diffs)
    IN IF Len(given) < 2 THEN "zeros"
       ELSE IF AllEqual(diffs) THEN "arithmetic"
       ELSE IF AllEqual(second_diffs) THEN "quadratic"
       ELSE IF (\A i \in 1 .. Len(given) : given[i] # 0)
                /\ RatiosAgree(Ratios(given)) THEN "geometric"
       ELSE IF Len(given) >= 3 /\ is_fib(given) THEN "fibonacci"
       ELSE "fallback"

solve_pattern(seq, checks) ==
    LET given == seq.given
        n == seq.predict_count
        diffs == Differences(given)
        second_diffs == Differences(diffs)
        last == given[Len(given)]
        rule == Rule(given)
    IN IF rule = "zeros" THEN Returned(Zeros(n))
       ELSE IF checks /\ DifferencesOverflow(given) THEN Panic
       ELSE IF rule = "arithmetic"
       THEN Checked(checks,
                    AccumulateOverflows(last, diffs[1], n),
                    Accumulate(last, diffs[1], n))
       ELSE IF checks /\ DifferencesOverflow(diffs) THEN Panic
       ELSE IF rule = "quadratic"
       THEN Checked(checks,
                    AccumulateSecondOverflows(last, diffs[Len(diffs)],
                                              second_diffs[1], n),
                    AccumulateSecond(last, diffs[Len(diffs)],
                                     second_diffs[1], n))
       ELSE IF rule = "geometric"
       THEN Returned(Scale(f64_from(last), Ratios(given)[1], n))
       ELSE IF checks /\ Len(given) >= 3 /\ is_fib_overflows(given)
       THEN Panic
       ELSE IF rule = "fibonacci"
       THEN Checked(checks,
                    ExtendOverflows(given[Len(given) - 1], last, n),
                    Extend(given[Len(given) - 1], last, n))
       ELSE Checked(checks,
                    AccumulateOverflows(last, diffs[Len(diffs)], n),
                    Accumulate(last, diffs[Len(diffs)], n))

\* ---- the solver: answer_question -----------------------------------------
\* a str is the sequence of its chars; the char U+00D7 is named
MultiplicationSign == "U+00D7"

Digits == <<"0", "1", "2", "3", "4", "5", "6", "7", "8", "9">>

\* q.to_lowercase()
to_lowercase(q) ==
    LET upper == <<"A", "B", "C", "D", "E", "F", "G", "H", "I", "J", "K",
                   "L", "M", "N", "O", "P", "Q", "R", "S", "T", "U", "V",
                   "W", "X", "Y", "Z">>
        lower == <<"a", "b", "c", "d", "e", "f", "g", "h", "i", "j", "k",
                   "l", "m", "n", "o", "p", "q", "r", "s", "t", "u", "v",
                   "w", "x", "y", "z">>
    IN [i \in 1 .. Len(q) |->
            IF \E j \in 1 .. 26 : upper[j] = q[i]
            THEN lower[CHOOSE j \in 1 .. 26 : upper[j] = q[i]]
            ELSE q[i]]

\* s[at..] starts with pat
StartsWith(s, at, pat) ==
    /\ at + Len(pat) - 1 <= Len(s)
    /\ \A j \in 1 .. Len(pat) : s[at + j - 1] = pat[j]

\* s.contains(pat)
contains(s, pat) == \E at \in 1 .. Len(s) : StartsWith(s, at, pat)

\* s.replace(pat, ""), pat not empty
RECURSIVE remove(_, _)
remove(s, pat) ==
    IF s = << >> THEN << >>
    ELSE IF StartsWith(s, 1, pat)
    THEN remove(SubSeq(s, Len(pat) + 1, Len(s)), pat)
    ELSE <<Head(s)>> \o remove(Tail(s), pat)

\* s.trim(), the space being the only whitespace of the model's strs
RECURSIVE trim(_)
trim(s) ==
    IF s = << >> THEN s
    ELSE IF Head(s) = " " THEN trim(Tail(s))
    ELSE IF s[Len(s)] = " " THEN trim(SubSeq(s, 1, Len(s) - 1))
    ELSE s

\* s.split_once(c): the parts before and after the first occurrence of c
split_once(s, c) ==
    IF \E i \in 1 .. Len(s) : s[i] = c
    THEN LET at == CHOOSE i \in 1 .. Len(s) :
                       s[i] = c /\ \A j \in 1 .. i - 1 : s[j] # c
         IN [some |-> TRUE, a |-> SubSeq(s, 1, at - 1),
             b |-> SubSeq(s, at + 1, Len(s))]
    ELSE [some |-> FALSE, a |-> << >>, b |-> << >>]

\* the value of a non-empty run of decimal digits
RECURSIVE DigitsValue(_)
DigitsValue(s) ==
    IF s = << >> THEN 0
    ELSE 10 * DigitsValue(SubSeq(s, 1, Len(s) - 1))
             + (CHOOSE d \in 0 .. 9 : Digits[d + 1] = s[Len(s)])

\* s.parse::<i64>(): an optional sign, then digits only, at least one, and
\* a value that is an i64
parse_i64(s) ==
    LET signed == s # << >> /\ Head(s) \in {"+", "-"}
        digits == IF signed THEN Tail(s) ELSE s
        wellFormed ==
            /\ digits # << >>
            /\ \A i \in 1 .. Len(digits) :
                   \E d \in 1 .. 10 : Digits[d] = digits[i]
        value == IF signed /\ Head(s) = "-"
                 THEN -DigitsValue(digits) ELSE DigitsValue(digits)
    IN IF wellFormed /\ InRange(value)
       THEN [ok |-> TRUE, value |-> value]
       ELSE [ok |-> FALSE, value |-> 0]

\* result.to_string()
RECURSIVE to_string(_)
to_string(x) ==
    IF x < 0 THEN <<"-">> \o to_string(-x)
    ELSE IF x < 10 THEN <<Digits[x + 1]>>
    ELSE to_string(x \div 10) \o <<Digits[(x % 10) + 1]>>

\* Option<i64>
None == [some |-> FALSE, value |-> 0]
Some(value) == [some |-> TRUE, value |-> value]

\* a test that lets any divisor pass
AnyDivisor(b) == TRUE

\* b != 0
NonZero(b) == b # 0

\* a op b on i64: / truncates toward zero and panics in every build when
\* the divisor is zero or the quotient is no i64
Operate(op, a, b, checks) ==
    IF op = "/"
    THEN IF b = 0 \/ (a = i64_MIN /\ b = -1) THEN Panic
         ELSE Returned(Some(Sign(a) * Sign(b) * (Abs(a) \div Abs(b))))
    ELSE LET exact == IF op = "*" THEN a * b
                      ELSE IF op = "+" THEN a + b
                      ELSE a - b
         IN Checked(checks, ~InRange(exact), Some(wrapping(exact)))

\* if let Some((a, b)) = q.split_once(c) { if let (Ok(a), Ok(b)) =
\* (a.trim().parse::<i64>(), b.trim().parse::<i64>()) { .. } }
operands(q, c) ==
    LET parts == split_once(q, c)
        a == parse_i64(trim(parts.a))
        b == parse_i64(trim(parts.b))
    IN [some |-> parts.some /\ a.ok /\ b.ok, a |-> a.value, b |-> b.value]

try_arithmetic(q0, checks) ==
    LET what_is == <<"w", "h", "a", "t", " ", "i", "s">>
        q == trim(remove(remove(q0, what_is), <<"?">>))
        star == operands(q, "*")
        times == operands(q, MultiplicationSign)
        slash == operands(q, "/")
        plus == operands(q, "+")
        minus == operands(q, "-")
    IN IF star.some THEN Operate("*", star.a, star.b, checks)
       ELSE IF times.some THEN Operate("*", times.a, times.b, checks)
       ELSE IF slash.some /\ NonZero(slash.b)
       THEN Operate("/", slash.a, slash.b, checks)
       ELSE IF plus.some THEN Operate("+", plus.a, plus.b, checks)
       ELSE IF minus.some THEN Operate("-", minus.a, minus.b, checks)
       ELSE Returned(None)

\* the fact table: what q_lower must contain, and the answer
Facts ==
  <<
     [keys |-> <<<<"c", "a", "p", "i", "t", "a", "l", " ", "o", "f", " ",
                    "f", "r", "a", "n", "c", "e">>>>,
      answer |-> <<"P", "a", "r", "i", "s">>],
     [keys |-> <<<<"c", "a", "p", "i", "t", "a", "l", " ", "o", "f", " ",
                    "g", "e", "r", "m", "a", "n", "y">>>>,
      answer |-> <<"B", "e", "r", "l", "i", "n">>],
     [keys |-> <<<<"c", "a", "p", "i", "t", "a", "l", " ", "o", "f", " ",
                    "j", "a", "p", "a", "n">>>>,
      answer |-> <<"T", "o", "k", "y", "o">>],
     [keys |-> <<<<"h", "e", "x", "a", "g", "o", "n">>,
                  <<"s", "i", "d", "e", "s">>>>,
      answer |-> <<"6">>],
     [keys |-> <<<<"p", "e", "n", "t", "a", "g", "o", "n">>,
                  <<"s", "i", "d", "e", "s">>>>,
      answer |-> <<"5">>],
     [keys |-> <<<<"o", "c", "t", "a", "g", "o", "n">>,
                  <<"s", "i", "d", "e", "s">>>>,
      answer |-> <<"8">>],
     [keys |-> <<<<"c", "h", "e", "m", "i", "c", "a", "l", " ", "s", "y",
                    "m", "b", "o", "l">>,
                  <<"g", "o", "l", "d">>>>,
      answer |-> <<"A", "u">>],
     [keys |-> <<<<"c", "h", "e", "m", "i", "c", "a", "l", " ", "s", "y",
                    "m", "b", "o", "l">>,
                  <<"s", "i", "l", "v", "e", "r">>>>,
      answer |-> <<"A", "g">>],
     [keys |-> <<<<"c", "h", "e", "m", "i", "c", "a", "l", " ", "s", "y",
                    "m", "b", "o", "l">>,
                  <<"i", "r", "o", "n">>>>,
      answer |-> <<"F", "e">>]
  >>

answer_question(q, checks) ==
    LET q_lower == to_lowercase(q)
        result == try_arithmetic(q_lower, checks)
        hits == {i \in 1 .. Len(Facts) :
                     \A j \in 1 .. Len(Facts[i].keys) :
                         contains(q_lower, Facts[i].keys[j])}
    IN IF result.outcome = "panic" THEN Panic
       ELSE IF result.value.some THEN Returned(to_string(result.value.value))
       ELSE IF hits # {}
       THEN Returned(Facts[CHOOSE i \in hits : \A j \in hits : i <= j].answer)
       ELSE Returned(<<"u", "n", "k", "n", "o", "w", "n">>)

\* ---- the solver: solve_challenge -----------------------------------------
\* isnad's apply_text_op is not interpreted: the result is the term that
\* names the operation and the text it was applied to
apply_text_op(text, op) == <<op, text>>

RECURSIVE ApplyAll(_, _)
\* for op in operations { result = apply_text_op(&result, op) }
ApplyAll(result, operations) ==
    IF operations = << >> THEN result
    ELSE ApplyAll(apply_text_op(result, Head(operations)), Tail(operations))

\* xs.iter().map(f).collect(), where a call of f may panic
Collect(results) ==
    IF \E i \in 1 .. Len(results) : results[i].outcome = "panic"
    THEN Panic
    ELSE Returned([i \in 1 .. Len(results) |-> results[i].value])

\* TaskAnswer::PatternCompletion { predictions }, unless a call panicked
PatternAnswer(predictions) ==
    IF predictions.outcome = "panic" THEN Panic
    ELSE Returned([kind |-> "PatternCompletion",
                   predictions |-> predictions.value])

\* TaskAnswer::ParallelQuestions { answers }, unless a call panicked
QuestionsAnswer(answers) ==
    IF answers.outcome = "panic" THEN Panic
    ELSE Returned([kind |-> "ParallelQuestions", answers |-> answers.value])

\* CaptchaResponse { challenge_id, answers }, unless a call panicked
Response(challenge_id, answers) ==
    IF answers.outcome = "panic" THEN Panic
    ELSE Returned([challenge_id |-> challenge_id, answers |-> answers.value])

solve_task(task, checks) ==
    IF task.kind = "PatternCompletion"
    THEN PatternAnswer(Collect([i \in 1 .. Len(task.sequences) |->
                                    solve_pattern(task.sequences[i], checks)]))
    ELSE IF task.kind = "TextTransformation"
    THEN Returned([kind |-> "TextTransformation",
                   result |-> ApplyAll(task.input, task.operations)])
    ELSE IF task.kind = "ParallelQuestions"
    THEN QuestionsAnswer(
             Collect([i \in 1 .. Len(task.questions) |->
                          answer_question(task.questions[i], checks)]))
    ELSE IF task.kind = "ReadingComprehension"
    THEN Returned([kind |-> "ReadingComprehension",
                   answers |-> [i \in 1 .. Len(task.questions) |->
                                    <<"u", "n", "k", "n", "o", "w", "n">>]])
    ELSE Returned([kind |-> "MetaQuestion",
                   answer |-> task.expected_keyword])

\* solve_challenge: one answer per task, in task order, under the
\* challenge's id; submitted_at is not modelled
solve_challenge(challenge, checks) ==
    Response(challenge.challenge_id,
             Collect([i \in 1 .. Len(challenge.tasks) |->
                          solve_task(challenge.tasks[i], checks)]))

\* ---- the agent -----------------------------------------------------------
\* tasks of the challenges an endpoint may answer with: none, one that is
\* solved in every build, one whose solution overflows i64
TaskLists ==
    {<< >>,
     <<[kind |-> "MetaQuestion", expected_keyword |-> "keyword"]>>,
     <<[kind |-> "PatternCompletion",
        sequences |-> <<[given |-> <<i64_MAX - 1, i64_MAX>>,
                         predict_count |-> 1]>>]>>}

\* statuses and bodies an auth endpoint may answer with
Statuses == {OK, FORBIDDEN, NOT_FOUND, INTERNAL_SERVER_ERROR}

NoBody == [kind |-> "none", challenge_id |-> UnknownCid, token |-> NoToken,
           tasks |-> << >>]

ChallengeBodies ==
    {[NoBody EXCEPT !.kind = "challenge", !.challenge_id = c, !.tasks = t] :
         c \in 1 .. MaxChallenges, t \in TaskLists}

TokenBodies ==
    {[NoBody EXCEPT !.kind = "token", !.token = generate_token(peer, 1, 0)] :
         peer \in Peers}

Bodies ==
    ChallengeBodies \cup TokenBodies
        \cup {[NoBody EXCEPT !.kind = "error"],
              [NoBody EXCEPT !.kind = "garbage"]}

StatusIgnored(status) == TRUE

\* StatusCode::is_success
IsSuccess(status) == 200 <= status /\ status < 300

\* a decoder that accepts any body
DecodesAnything(body) == TRUE

\* challenge_resp.json::<ChallengeApiResponse>() succeeds
DecodesAsChallenge(body) == body.kind = "challenge"

\* verify_resp.json::<VerifyApiResponse>() succeeds
DecodesAsVerify(body) == body.kind = "token"

NoResult == [ok |-> FALSE, error |-> "", status |-> 0, body |-> NoBody,
             token |-> NoToken]

Err(error, status, body) ==
    [NoResult EXCEPT !.error = error, !.status = status, !.body = body]

NoCall == [pc |-> "idle", peer_id |-> NoPeer, challenge_id |-> UnknownCid,
           result |-> NoResult]

ChallengeRequest(peer_id) ==
    [path |-> "/auth/challenge", peer_id |-> peer_id,
     challenge_id |-> UnknownCid, answers |-> << >>]

VerifyRequest(peer_id, response) ==
    [path |-> "/auth/verify", peer_id |-> peer_id,
     challenge_id |-> response.challenge_id, answers |-> response.answers]

\* a guard that stays with its holder after the block ends
GuardKept(holder) == holder

\* the write guard goes out of scope: the lock has no holder
Dropped(holder) == NoWorker

PendingFree == pendingLock = NoWorker
VerifiedWriteFree ==
    verifiedLock.writer = NoWorker /\ verifiedLock.readers = {}
VerifiedReadFree == verifiedLock.writer = NoWorker

ConsumedIds == {r.cid : r \in consumed}
MismatchConsumedIds == {r.cid : r \in {x \in consumed : x.owner # x.by}}
MintedTokens == {m.token : m \in minted}

\* the relay and the agent after construction
InitRelay ==
    /\ now = 0
    /\ ticks = 0
    /\ pending = << >>
    /\ verified = << >>
    /\ pendingLock = NoWorker
    /\ verifiedLock = [writer |-> NoWorker, readers |-> {}]
    /\ nextCid = 1
    /\ nextUuid = 1
    /\ pc = [p \in Workers |-> "idle"]
    /\ req = [p \in Workers |-> NoReq]
    /\ loc = [p \in Workers |-> NoLoc]
    /\ res = [p \in Workers |-> NoRes]
    /\ consumed = {}
    /\ minted = {}
    /\ cl = NoCall
    /\ sent = << >>
    /\ got = << >>
    /\ calls = 0
    \* NetworkState::new(): handle: RwLock::new(None)
    /\ handle = None
    /\ services = 0
    /\ running = {}
    /\ netCall = [c \in Workers |->
                   [pc |-> "idle", service |-> 0, result |-> "none"]]

\* the relay and the agent, no function of the solver being called
Init ==
    /\ InitRelay
    /\ overflow_checks = FALSE
    /\ called = "none"
    /\ arg = << >>
    /\ ret = NotCalled

\* the agent, built with or without overflow checks
InitClient ==
    /\ InitRelay
    /\ overflow_checks \in BOOLEAN
    /\ called = "none"
    /\ arg = << >>
    /\ ret = NotCalled

\* ---- the clock ----------------------------------------------------------
\* the clock advances by a fraction of a second, or to just under the
\* challenge TTL or the token TTL
Tick ==
    /\ ticks < MaxTicks
    /\ \E d \in {1,
                 CHALLENGE_TTL_SECS * TicksPerSec - 1,
                 TOKEN_TTL_SECS * TicksPerSec - 1} : now' = now + d
    /\ ticks' = ticks + 1
    /\ UNCHANGED <<pending, verified, pendingLock, verifiedLock, nextCid,
                   nextUuid, pc, req, loc, res, consumed, minted>>
    /\ UNCHANGED <<clientVars, solverVars, netVars>>

\* ---- request_challenge --------------------------------------------------
\* the request arrives; cleanup() reads the clock once (let now = Utc::now())
StartRequestChallenge(p) ==
    /\ pc[p] = "idle"
    \* counting the workers that will still draw a challenge id
    /\ nextCid + Cardinality({w \in Workers :
                                 pc[w] \in {"cl_pending", "cl_pending_held",
                                            "cl_verified", "cl_verified_held"}})
          <= MaxChallenges
    /\ \E peer \in Peers :
          req' = [req EXCEPT ![p] = [NoReq EXCEPT !.op = "request_challenge",
                                                  !.peer_id = peer]]
    /\ loc' = [loc EXCEPT ![p] = [NoLoc EXCEPT !.cl_now = now]]
    /\ pc' = [pc EXCEPT ![p] = "cl_pending"]
    /\ UNCHANGED <<now, ticks, pending, verified, pendingLock, verifiedLock,
                   nextCid, nextUuid, res, consumed, minted>>
    /\ UNCHANGED <<clientVars, solverVars, netVars>>

\* cleanup: first block, pending.write() and retain
CleanupPending(p) ==
    /\ pc[p] = "cl_pending"
    /\ PendingFree
    /\ pendingLock' = p
    /\ pending' = RetainPending(pending, loc[p].cl_now)
    /\ pc' = [pc EXCEPT ![p] = "cl_pending_held"]
    /\ UNCHANGED <<now, ticks, verified, verifiedLock, nextCid, nextUuid,
                   req, loc, res, consumed, minted>>
    /\ UNCHANGED <<clientVars, solverVars, netVars>>

\* cleanup: end of the first block drops the pending guard
CleanupPendingUnlock(p) ==
    /\ pc[p] = "cl_pending_held"
    /\ pendingLock' = Dropped(p)
    /\ pc' = [pc EXCEPT ![p] = "cl_verified"]
    /\ UNCHANGED <<now, ticks, pending, verified, verifiedLock, nextCid,
                   nextUuid, req, loc, res, consumed, minted>>
    /\ UNCHANGED <<clientVars, solverVars, netVars>>

\* cleanup: second block, verified.write() and retain
CleanupVerified(p) ==
    /\ pc[p] = "cl_verified"
    /\ VerifiedWriteFree
    /\ verifiedLock' = [verifiedLock EXCEPT !.writer = p]
    /\ verified' = RetainVerified(verified, loc[p].cl_now)
    /\ pc' = [pc EXCEPT ![p] = "cl_verified_held"]
    /\ UNCHANGED <<now, ticks, pending, pendingLock, nextCid, nextUuid,
                   req, loc, res, consumed, minted>>
    /\ UNCHANGED <<clientVars, solverVars, netVars>>

\* cleanup returns; the oracle generates the challenge with a fresh id,
\* and its expected answers
CleanupVerifiedUnlock(p) ==
    /\ pc[p] = "cl_verified_held"
    /\ verifiedLock' = [verifiedLock EXCEPT !.writer = Dropped(p)]
    /\ \E ea \in ExpectedAnswers :
          loc' = [loc EXCEPT ![p].challenge_id = nextCid,
                             ![p].expected_answers = ea]
    /\ nextCid' = nextCid + 1
    /\ pc' = [pc EXCEPT ![p] = "rc_insert"]
    /\ UNCHANGED <<now, ticks, pending, verified, pendingLock, nextUuid,
                   req, res, consumed, minted>>
    /\ UNCHANGED <<clientVars, solverVars, netVars>>

\* pending.write() and insert, issued_at: Utc::now()
RequestInsert(p) ==
    /\ pc[p] = "rc_insert"
    /\ PendingFree
    /\ pendingLock' = p
    /\ pending' = MapInsert(pending, loc[p].challenge_id,
                            [expected_answers |-> loc[p].expected_answers,
                             peer_id |-> req[p].peer_id, issued_at |-> now])
    /\ pc' = [pc EXCEPT ![p] = "rc_insert_held"]
    /\ UNCHANGED <<now, ticks, verified, verifiedLock, nextCid, nextUuid,
                   req, loc, res, consumed, minted>>
    /\ UNCHANGED <<clientVars, solverVars, netVars>>

\* the guard is dropped and the challenge is returned
RequestInsertUnlock(p) ==
    /\ pc[p] = "rc_insert_held"
    /\ pendingLock' = Dropped(p)
    /\ res' = [res EXCEPT ![p] = ChallengeReply(loc[p].challenge_id,
                                                 loc[p].expected_answers)]
    /\ pc' = [pc EXCEPT ![p] = "done"]
    /\ UNCHANGED <<now, ticks, pending, verified, verifiedLock, nextCid,
                   nextUuid, req, loc, consumed, minted>>
    /\ UNCHANGED <<clientVars, solverVars, netVars>>

\* ---- verify_challenge ---------------------------------------------------
\* a verify request, naming any issued challenge id or an unknown one, with
\* answers that are aligned with the tasks of the named challenge or not
\* (an id that is not pending has no tasks to differ from), takes
\* pending.write() and does pending.remove(&challenge_id)
VerifyRemove(p) ==
    /\ pc[p] = "idle"
    /\ PendingFree
    /\ \E peer \in Peers, c \in 0 .. (nextCid - 1), al \in BOOLEAN :
        LET found == c \in DOMAIN pending IN
        /\ found \/ al
        /\ req' = [req EXCEPT ![p] = [NoReq EXCEPT !.op = "verify_challenge",
                                                   !.peer_id = peer,
                                                   !.challenge_id = c,
                                                   !.aligned = al]]
        /\ pending' = RemovePending(pending, c)
        /\ loc' = [loc EXCEPT ![p] =
                 [NoLoc EXCEPT !.entry_found = found,
                               !.expected_answers =
                                   IF found THEN pending[c].expected_answers
                                            ELSE NoAnswers,
                               !.entry_peer =
                                   IF found THEN pending[c].peer_id ELSE NoPeer,
                               !.stale =
                                   /\ found
                                   /\ now - pending[c].issued_at
                                        >= CHALLENGE_TTL_SECS * TicksPerSec,
                               !.late = (c \in ConsumedIds),
                               !.lateMismatch = (c \in MismatchConsumedIds)]]
        /\ consumed' = IF found
                       THEN consumed \cup {[cid |-> c,
                                            owner |-> pending[c].peer_id,
                                            by |-> peer]}
                       ELSE consumed
    /\ pendingLock' = p
    /\ pc' = [pc EXCEPT ![p] = "v_remove_held"]
    /\ UNCHANGED <<now, ticks, verified, verifiedLock, nextCid, nextUuid,
                   res, minted>>
    /\ UNCHANGED <<clientVars, solverVars, netVars>>

\* a verification that carries the guard on pending into the oracle call
VerifyRemoveKeepsGuard(p) ==
    /\ pc[p] = "v_remove_held"
    /\ IF ~loc[p].entry_found
       THEN /\ res' = [res EXCEPT ![p] =
                   ErrorReply(NOT_FOUND, "Challenge not found or expired")]
            /\ pc' = [pc EXCEPT ![p] = "done"]
            /\ pendingLock' = NoWorker
       ELSE IF ~PeerMatches(loc[p].entry_peer, req[p].peer_id)
       THEN /\ res' = [res EXCEPT ![p] =
                   ErrorReply(FORBIDDEN, "Peer ID mismatch")]
            /\ pc' = [pc EXCEPT ![p] = "done"]
            /\ pendingLock' = NoWorker
       ELSE /\ res' = res
            /\ pc' = [pc EXCEPT ![p] = "v_oracle"]
            /\ pendingLock' = pendingLock
    /\ UNCHANGED <<now, ticks, pending, verified, verifiedLock, nextCid,
                   nextUuid, req, loc, consumed, minted>>
    /\ UNCHANGED <<clientVars, solverVars, netVars>>

\* the guard is dropped; None => 404, peer mismatch => 403
VerifyRemoveUnlock(p) ==
    /\ pc[p] = "v_remove_held"
    /\ pendingLock' = Dropped(p)
    /\ IF ~loc[p].entry_found
       THEN /\ res' = [res EXCEPT ![p] =
                   ErrorReply(NOT_FOUND, "Challenge not found or expired")]
            /\ pc' = [pc EXCEPT ![p] = "done"]
       ELSE IF ~PeerMatches(loc[p].entry_peer, req[p].peer_id)
       THEN /\ res' = [res EXCEPT ![p] =
                   ErrorReply(FORBIDDEN, "Peer ID mismatch")]
            /\ pc' = [pc EXCEPT ![p] = "done"]
       ELSE /\ res' = res
            /\ pc' = [pc EXCEPT ![p] = "v_oracle"]
    /\ UNCHANGED <<now, ticks, pending, verified, verifiedLock, nextCid,
                   nextUuid, req, loc, consumed, minted>>
    /\ UNCHANGED <<clientVars, solverVars, netVars>>

\* serde_json::from_value of the stored challenge fails => 500
VerifyReconstructFails(p) ==
    /\ pc[p] = "v_oracle"
    /\ res' = [res EXCEPT ![p] =
                   ErrorReply(INTERNAL_SERVER_ERROR, "Internal error")]
    /\ pc' = [pc EXCEPT ![p] = "done"]
    /\ UNCHANGED <<now, ticks, pending, verified, pendingLock, verifiedLock,
                   nextCid, nextUuid, req, loc, consumed, minted>>
    /\ UNCHANGED <<clientVars, solverVars, netVars>>

\* auth.verifier.verify(..) returns; Err => 403, Ok => generate_token
VerifyOracle(p) ==
    /\ pc[p] = "v_oracle"
    /\ \E verdict \in {"ok", "err"} :
        IF VerdictAllowsToken(verdict)
        THEN /\ loc' = [loc EXCEPT ![p] =
                    [@ EXCEPT !.oracle = verdict,
                              !.token = generate_token(req[p].peer_id,
                                                       nextUuid, now)]]
             /\ nextUuid' = nextUuid + 1
             /\ res' = res
             /\ pc' = [pc EXCEPT ![p] = "v_insert"]
        ELSE /\ loc' = [loc EXCEPT ![p].oracle = verdict]
             /\ nextUuid' = nextUuid
             /\ res' = [res EXCEPT ![p] =
                    ErrorReply(FORBIDDEN, "Verification failed")]
             /\ pc' = [pc EXCEPT ![p] = "done"]
    /\ UNCHANGED <<now, ticks, pending, verified, pendingLock, verifiedLock,
                   nextCid, req, consumed, minted>>
    /\ UNCHANGED <<clientVars, solverVars, netVars>>

\* verified.write() and insert, verified_at: Utc::now()
VerifyInsert(p) ==
    /\ pc[p] = "v_insert"
    /\ VerifiedWriteFree
    /\ verifiedLock' = [verifiedLock EXCEPT !.writer = p]
    /\ verified' = MapInsert(verified, loc[p].token,
                             [peer_id |-> req[p].peer_id, verified_at |-> now])
    /\ minted' = minted \cup {[token |-> loc[p].token,
                               cid |-> req[p].challenge_id,
                               peer_id |-> req[p].peer_id,
                               verified_at |-> now]}
    /\ pc' = [pc EXCEPT ![p] = "v_insert_held"]
    /\ UNCHANGED <<now, ticks, pending, pendingLock, nextCid, nextUuid,
                   req, loc, res, consumed>>
    /\ UNCHANGED <<clientVars, solverVars, netVars>>

\* the guard is dropped and the VerifyResponse is returned
VerifyInsertUnlock(p) ==
    /\ pc[p] = "v_insert_held"
    /\ verifiedLock' = [verifiedLock EXCEPT !.writer = Dropped(p)]
    /\ res' = [res EXCEPT ![p] =
                 [NoRes EXCEPT !.status = OK,
                               !.token = loc[p].token,
                               !.expires_in_seconds = TOKEN_TTL_SECS,
                               !.peer_id = req[p].peer_id]]
    /\ pc' = [pc EXCEPT ![p] = "done"]
    /\ UNCHANGED <<now, ticks, pending, verified, pendingLock, nextCid,
                   nextUuid, req, loc, consumed, minted>>
    /\ UNCHANGED <<clientVars, solverVars, netVars>>

\* ---- check_token --------------------------------------------------------
\* a check request, naming any token ever issued or an unknown one, takes
\* verified.read() and matches on verified.get(&req.token)
CheckToken(p) ==
    /\ pc[p] = "idle"
    /\ VerifiedReadFree
    /\ \E t \in MintedTokens \cup {BogusToken} :
        LET reply == CheckTokenReply(verified, now, t) IN
        /\ req' = [req EXCEPT ![p] = [NoReq EXCEPT !.op = "check_token",
                                                   !.token = t]]
        /\ verified' = VerifiedAfterCheck(verified, now, t)
        /\ res' = [res EXCEPT ![p] =
                 [NoRes EXCEPT !.status = OK,
                               !.valid = reply.valid,
                               !.peer_id = reply.peer_id,
                               !.remaining_seconds = reply.remaining_seconds]]
    /\ verifiedLock' = [verifiedLock EXCEPT !.readers = @ \cup {p}]
    /\ loc' = [loc EXCEPT ![p] = [NoLoc EXCEPT !.at = now]]
    /\ pc' = [pc EXCEPT ![p] = "ct_held"]
    /\ UNCHANGED <<now, ticks, pending, pendingLock, nextCid, nextUuid,
                   consumed, minted>>
    /\ UNCHANGED <<clientVars, solverVars, netVars>>

\* the handler returns its reply and the read guard is dropped
CheckTokenReturn(p) ==
    /\ pc[p] = "ct_held"
    /\ verifiedLock' = [verifiedLock EXCEPT !.readers = @ \ {p}]
    /\ pc' = [pc EXCEPT ![p] = "idle"]
    /\ req' = [req EXCEPT ![p] = NoReq]
    /\ loc' = [loc EXCEPT ![p] = NoLoc]
    /\ res' = [res EXCEPT ![p] = NoRes]
    /\ UNCHANGED <<now, ticks, pending, verified, pendingLock, nextCid,
                   nextUuid, consumed, minted>>
    /\ UNCHANGED <<clientVars, solverVars, netVars>>

\* ---- is_peer_verified ---------------------------------------------------
\* a caller takes verified.read() and scans the values
IsPeerVerified(p) ==
    /\ pc[p] = "idle"
    /\ VerifiedReadFree
    /\ \E peer \in Peers :
        /\ req' = [req EXCEPT ![p] = [NoReq EXCEPT !.op = "is_peer_verified",
                                                   !.peer_id = peer]]
        /\ res' = [res EXCEPT ![p] =
                 [NoRes EXCEPT !.verified =
                     is_peer_verified(verified, now, peer)]]
    /\ verifiedLock' = [verifiedLock EXCEPT !.readers = @ \cup {p}]
    /\ loc' = [loc EXCEPT ![p] = [NoLoc EXCEPT !.at = now]]
    /\ pc' = [pc EXCEPT ![p] = "ipv_held"]
    /\ UNCHANGED <<now, ticks, pending, verified, pendingLock, nextCid,
                   nextUuid, consumed, minted>>
    /\ UNCHANGED <<clientVars, solverVars, netVars>>

\* the function returns its result and the read guard is dropped
IsPeerVerifiedReturn(p) ==
    /\ pc[p] = "ipv_held"
    /\ verifiedLock' = [verifiedLock EXCEPT !.readers = @ \ {p}]
    /\ pc' = [pc EXCEPT ![p] = "idle"]
    /\ req' = [req EXCEPT ![p] = NoReq]
    /\ loc' = [loc EXCEPT ![p] = NoLoc]
    /\ res' = [res EXCEPT ![p] = NoRes]
    /\ UNCHANGED <<now, ticks, pending, verified, pendingLock, nextCid,
                   nextUuid, consumed, minted>>
    /\ UNCHANGED <<clientVars, solverVars, netVars>>

\* ---- the reply leaves the worker ----------------------------------------
Return(p) ==
    /\ pc[p] = "done"
    /\ pc' = [pc EXCEPT ![p] = "idle"]
    /\ req' = [req EXCEPT ![p] = NoReq]
    /\ loc' = [loc EXCEPT ![p] = NoLoc]
    /\ res' = [res EXCEPT ![p] = NoRes]
    /\ UNCHANGED <<now, ticks, pending, verified, pendingLock, verifiedLock,
                   nextCid, nextUuid, consumed, minted>>
    /\ UNCHANGED <<clientVars, solverVars, netVars>>

\* ---- authenticate_with_relay ---------------------------------------------
\* the call starts and posts the ChallengeRequest
Authenticate ==
    /\ cl.pc = "idle"
    /\ calls < MaxCalls
    /\ \E peer \in Peers :
          /\ cl' = [NoCall EXCEPT !.pc = "await_challenge", !.peer_id = peer]
          /\ sent' = <<ChallengeRequest(peer)>>
    /\ got' = << >>
    /\ calls' = calls + 1
    /\ UNCHANGED <<relayVars, solverVars, netVars>>

\* send() fails: Err("Failed to request challenge: ..")
ChallengeSendFails ==
    /\ cl.pc = "await_challenge"
    /\ cl' = [cl EXCEPT !.pc = "returned",
                        !.result = Err("Failed to request challenge",
                                       0, NoBody)]
    /\ UNCHANGED <<sent, got, calls>>
    /\ UNCHANGED <<relayVars, solverVars, netVars>>

\* the endpoint answers the challenge request
ChallengeArrives ==
    /\ cl.pc = "await_challenge"
    /\ \E status \in Statuses, body \in Bodies :
          got' = Append(got, [status |-> status, body |-> body])
    /\ cl' = [cl EXCEPT !.pc = "challenge_received"]
    /\ UNCHANGED <<sent, calls>>
    /\ UNCHANGED <<relayVars, solverVars, netVars>>

\* if !challenge_resp.status().is_success(): Err with the status and body
ChallengeRejected ==
    /\ cl.pc = "challenge_received"
    /\ ~IsSuccess(got[1].status)
    /\ cl' = [cl EXCEPT !.pc = "returned",
                        !.result = Err("Challenge request failed",
                                       got[1].status, got[1].body)]
    /\ UNCHANGED <<sent, got, calls>>
    /\ UNCHANGED <<relayVars, solverVars, netVars>>

\* json() fails: Err("Failed to parse challenge: ..")
ChallengeUndecodable ==
    /\ cl.pc = "challenge_received"
    /\ IsSuccess(got[1].status)
    /\ ~DecodesAsChallenge(got[1].body)
    /\ cl' = [cl EXCEPT !.pc = "returned",
                        !.result = Err("Failed to parse challenge",
                                       0, NoBody)]
    /\ UNCHANGED <<sent, got, calls>>
    /\ UNCHANGED <<relayVars, solverVars, netVars>>

\* the challenge is decoded, solved, and the VerifyRequest is posted
SolveAndSubmit ==
    /\ cl.pc = "challenge_received"
    /\ IsSuccess(got[1].status)
    /\ DecodesAsChallenge(got[1].body)
    /\ \E response \in {solve_challenge(got[1].body, overflow_checks)} :
          /\ response.outcome = "return"
          /\ cl' = [cl EXCEPT !.pc = "await_verify",
                              !.challenge_id = got[1].body.challenge_id]
          /\ sent' = Append(sent, VerifyRequest(cl.peer_id, response.value))
    /\ UNCHANGED <<got, calls>>
    /\ UNCHANGED <<relayVars, solverVars, netVars>>

\* the challenge is decoded and solve_challenge panics: the call never
\* returns
SolvePanics ==
    /\ cl.pc = "challenge_received"
    /\ IsSuccess(got[1].status)
    /\ DecodesAsChallenge(got[1].body)
    /\ solve_challenge(got[1].body, overflow_checks).outcome = "panic"
    /\ cl' = [cl EXCEPT !.pc = "panicked"]
    /\ UNCHANGED <<sent, got, calls>>
    /\ UNCHANGED <<relayVars, solverVars, netVars>>

\* send() fails: Err("Failed to submit verification: ..")
VerifySendFails ==
    /\ cl.pc = "await_verify"
    /\ cl' = [cl EXCEPT !.pc = "returned",
                        !.result = Err("Failed to submit verification",
                                       0, NoBody)]
    /\ UNCHANGED <<sent, got, calls>>
    /\ UNCHANGED <<relayVars, solverVars, netVars>>

\* the endpoint answers the verify request
VerifyArrives ==
    /\ cl.pc = "await_verify"
    /\ \E status \in Statuses, body \in Bodies :
          got' = Append(got, [status |-> status, body |-> body])
    /\ cl' = [cl EXCEPT !.pc = "verify_received"]
    /\ UNCHANGED <<sent, calls>>
    /\ UNCHANGED <<relayVars, solverVars, netVars>>

\* if !verify_resp.status().is_success(): Err with the status and body
VerifyRejected ==
    /\ cl.pc = "verify_received"
    /\ ~IsSuccess(got[2].status)
    /\ cl' = [cl EXCEPT !.pc = "returned",
                        !.result = Err("Verification failed",
                                       got[2].status, got[2].body)]
    /\ UNCHANGED <<sent, got, calls>>
    /\ UNCHANGED <<relayVars, solverVars, netVars>>

\* json() fails: Err("Failed to parse verification result: ..")
VerifyUndecodable ==
    /\ cl.pc = "verify_received"
    /\ IsSuccess(got[2].status)
    /\ ~DecodesAsVerify(got[2].body)
    /\ cl' = [cl EXCEPT !.pc = "returned",
                        !.result = Err("Failed to parse verification result",
                                       0, NoBody)]
    /\ UNCHANGED <<sent, got, calls>>
    /\ UNCHANGED <<relayVars, solverVars, netVars>>

\* Ok(result)
VerifyAccepted ==
    /\ cl.pc = "verify_received"
    /\ IsSuccess(got[2].status)
    /\ DecodesAsVerify(got[2].body)
    /\ cl' = [cl EXCEPT !.pc = "returned",
                        !.result = [NoResult EXCEPT !.ok = TRUE,
                                                    !.token = got[2].body.token]]
    /\ UNCHANGED <<sent, got, calls>>
    /\ UNCHANGED <<relayVars, solverVars, netVars>>

\* the caller has the result
AuthReturn ==
    /\ cl.pc = "returned"
    /\ cl' = NoCall
    /\ sent' = << >>
    /\ got' = << >>
    /\ UNCHANGED calls
    /\ UNCHANGED <<relayVars, solverVars, netVars>>

\* one step of the agent
ClientStep ==
    \/ Authenticate
    \/ ChallengeSendFails
    \/ ChallengeArrives
    \/ ChallengeRejected
    \/ ChallengeUndecodable
    \/ SolveAndSubmit
    \/ SolvePanics
    \/ VerifySendFails
    \/ VerifyArrives
    \/ VerifyRejected
    \/ VerifyUndecodable
    \/ VerifyAccepted
    \/ AuthReturn

\* ---- calls of the solver's functions -------------------------------------
\* CaptchaChallenge { challenge_id, tasks }, the tasks of every variant;
\* one of them overflows i64 and one panics in every build
Challenges ==
    LET tasks ==
            {[kind |-> "MetaQuestion", expected_keyword |-> "keyword"],
             [kind |-> "PatternCompletion",
              sequences |-> <<[given |-> <<i64_MAX - 1, i64_MAX>>,
                               predict_count |-> 1]>>],
             [kind |-> "PatternCompletion",
              sequences |-> <<[given |-> <<1, 3>>, predict_count |-> 2],
                              [given |-> <<1, 4, 9>>, predict_count |-> 1]>>],
             [kind |-> "TextTransformation", input |-> <<"text">>,
              operations |-> <<"reverse", "uppercase">>],
             [kind |-> "ParallelQuestions",
              questions |-> <<<<"2", " ", "+", " ", "7">>,
                              <<"g", "o", "l", "d">>>>],
             [kind |-> "ParallelQuestions",
              questions |->
                  <<to_string(i64_MIN) \o <<" ", "/", " ", "-", "1">>>>],
             [kind |-> "ReadingComprehension",
              questions |-> <<<<"w", "h", "o", "?">>,
                              <<"w", "h", "y", "?">>>>]}
    IN {[challenge_id |-> c, tasks |-> t] :
            c \in 1 .. MaxChallenges,
            t \in UNION {[1 .. l -> tasks] : l \in 0 .. MaxTasks}}

InitChallenge ==
    /\ InitRelay
    /\ overflow_checks \in BOOLEAN
    /\ called = "solve_challenge"
    /\ arg \in Challenges
    /\ ret = NotCalled

\* solve_challenge(&challenge)
SolveChallenge ==
    /\ called = "solve_challenge"
    /\ ret = NotCalled
    /\ ret' = solve_challenge(arg, overflow_checks)
    /\ UNCHANGED <<overflow_checks, called, arg>>
    /\ UNCHANGED <<relayVars, clientVars, netVars>>

\* PatternSequence { given, predict_count }, the given values drawn from
\* the i64 range: its ends and its middle, the values next to zero, and
\* members of arithmetic, quadratic, geometric and Fibonacci-like runs
PatternSequences ==
    LET values == {i64_MIN, -2, -1, 0, 1, 2, 3, 4, 8, 9, 27,
                   i64_MAX \div 2, i64_MAX \div 2 + 1, i64_MAX}
    IN {[given |-> g, predict_count |-> n] :
            g \in UNION {[1 .. l -> values] : l \in 0 .. MaxLen},
            n \in 0 .. MaxPredict}

InitPattern ==
    /\ InitRelay
    /\ overflow_checks \in BOOLEAN
    /\ called = "solve_pattern"
    /\ arg \in PatternSequences
    /\ ret = NotCalled

\* solve_pattern(&seq)
SolvePattern ==
    /\ called = "solve_pattern"
    /\ ret = NotCalled
    /\ ret' = solve_pattern(arg, overflow_checks)
    /\ UNCHANGED <<overflow_checks, called, arg>>
    /\ UNCHANGED <<relayVars, clientVars, netVars>>

\* questions: two integers (one sample lies beyond the i64 range)
\* separated by one operator, with or without spaces around it, with or
\* without the "what is" framing in some letter case and the question mark;
\* and questions about facts of the table, one of them about none
Questions ==
    LET integers == {i64_MIN, -12, -3, 0, 2, 7, 12, i64_MAX, i64_MAX + 1}
        operators == {"*", MultiplicationSign, "/", "+", "-"}
        framings ==
            {<< >>,
             <<"w", "h", "a", "t", " ", "i", "s", " ">>,
             <<"W", "h", "a", "t", " ", "I", "s", " ">>,
             <<"W", "H", "A", "T", " ", "I", "S", " ">>}
        facts ==
            {<<"C", "a", "p", "i", "t", "a", "l", " ", "o", "f", " ",
               "J", "a", "p", "a", "n", "?">>,
             <<"c", "h", "e", "m", "i", "c", "a", "l", " ", "s", "y",
               "m", "b", "o", "l", " ", "o", "f", " ", "i", "r", "o", "n">>,
             <<"s", "i", "d", "e", "s", " ", "o", "f", " ", "a", " ",
               "p", "e", "n", "t", "a", "g", "o", "n">>,
             <<"g", "o", "l", "d", "?">>}
    IN {[kind |-> "arithmetic", framing |-> f, a |-> a, spaced |-> sp,
         op |-> op, b |-> b, mark |-> m] :
            f \in framings, a \in integers, sp \in BOOLEAN,
            op \in operators, b \in integers, m \in BOOLEAN}
       \cup {[kind |-> "fact", text |-> t] : t \in facts}

\* the str of a question
Text(question) ==
    IF question.kind = "fact" THEN question.text
    ELSE question.framing
             \o to_string(question.a)
             \o (IF question.spaced THEN <<" ">> ELSE << >>)
             \o <<question.op>>
             \o (IF question.spaced THEN <<" ">> ELSE << >>)
             \o to_string(question.b)
             \o (IF question.mark THEN <<"?">> ELSE << >>)

InitQuestion ==
    /\ InitRelay
    /\ overflow_checks \in BOOLEAN
    /\ called = "answer_question"
    /\ arg \in Questions
    /\ ret = NotCalled

\* answer_question(q)
AnswerQuestion ==
    /\ called = "answer_question"
    /\ ret = NotCalled
    /\ ret' = answer_question(Text(arg), overflow_checks)
    /\ UNCHANGED <<overflow_checks, called, arg>>
    /\ UNCHANGED <<relayVars, clientVars, netVars>>

\* one step of worker p
Step(p) ==
    \/ StartRequestChallenge(p)
    \/ CleanupPending(p)
    \/ CleanupPendingUnlock(p)
    \/ CleanupVerified(p)
    \/ CleanupVerifiedUnlock(p)
    \/ RequestInsert(p)
    \/ RequestInsertUnlock(p)
    \/ VerifyRemove(p)
    \/ VerifyRemoveUnlock(p)
    \/ VerifyReconstructFails(p)
    \/ VerifyOracle(p)
    \/ VerifyInsert(p)
    \/ VerifyInsertUnlock(p)
    \/ CheckToken(p)
    \/ CheckTokenReturn(p)
    \/ IsPeerVerified(p)
    \/ IsPeerVerifiedReturn(p)
    \/ Return(p)

\* the clock advances between requests only
QuiescentTick == (\A p \in Workers : pc[p] = "idle") /\ Tick

\* ---- the handshake: the agent against the relay --------------------------
\* Worker 1 serves the agent's two requests and nothing else; the other
\* workers serve everybody else's requests.  The connection is reliable: a
\* request the agent has posted reaches its handler, and the handler's reply
\* reaches the agent.

\* POST /auth/challenge: the agent's ChallengeRequest reaches request_challenge
ChallengeDelivered ==
    /\ cl.pc = "await_challenge"
    /\ StartRequestChallenge(1)
    /\ req'[1].peer_id = sent[1].peer_id

\* the worker that serves the agent runs its handler
Serve ==
    \/ CleanupPending(1)
    \/ CleanupPendingUnlock(1)
    \/ CleanupVerified(1)
    \/ CleanupVerifiedUnlock(1)
    \/ RequestInsert(1)
    \/ RequestInsertUnlock(1)
    \/ VerifyRemoveUnlock(1)
    \/ VerifyReconstructFails(1)
    \/ VerifyOracle(1)
    \/ VerifyInsert(1)
    \/ VerifyInsertUnlock(1)

\* the ChallengeResponse reaches the agent: the challenge the oracle
\* generated, with its id and its tasks
ChallengeReturned ==
    /\ cl.pc = "await_challenge"
    /\ pc[1] = "done"
    /\ \E tasks \in TaskLists :
          got' = Append(got,
                        [status |-> res[1].status,
                         body |-> [NoBody EXCEPT
                                       !.kind = "challenge",
                                       !.challenge_id = res[1].challenge,
                                       !.tasks = tasks]])
    /\ cl' = [cl EXCEPT !.pc = "challenge_received"]
    \* the handler's reply leaves worker 1
    /\ pc' = [pc EXCEPT ![1] = "idle"]
    /\ req' = [req EXCEPT ![1] = NoReq]
    /\ loc' = [loc EXCEPT ![1] = NoLoc]
    /\ res' = [res EXCEPT ![1] = NoRes]
    /\ UNCHANGED <<now, ticks, pending, verified, pendingLock, verifiedLock,
                   nextCid, nextUuid, consumed, minted>>
    /\ UNCHANGED <<sent, calls, solverVars, netVars>>

\* POST /auth/verify: the agent's VerifyRequest reaches verify_challenge
VerifyDelivered ==
    /\ cl.pc = "await_verify"
    /\ VerifyRemove(1)
    /\ req'[1].peer_id = sent[2].peer_id
    /\ req'[1].challenge_id = sent[2].challenge_id
    \* the answers have the length and the variant order of the tasks
    /\ req'[1].aligned =
          (/\ Len(sent[2].answers) = Len(got[1].body.tasks)
           /\ \A i \in 1 .. Len(got[1].body.tasks) :
                 sent[2].answers[i].kind = got[1].body.tasks[i].kind)

\* the VerifyResponse, or the AuthError, reaches the agent
VerifyReturned ==
    /\ cl.pc = "await_verify"
    /\ pc[1] = "done"
    /\ got' = Append(got,
                     [status |-> res[1].status,
                      body |-> IF res[1].status = OK
                               THEN [NoBody EXCEPT !.kind = "token",
                                                   !.token = res[1].token]
                               ELSE [NoBody EXCEPT !.kind = "error"]])
    /\ cl' = [cl EXCEPT !.pc = "verify_received"]
    \* the handler's reply leaves worker 1
    /\ pc' = [pc EXCEPT ![1] = "idle"]
    /\ req' = [req EXCEPT ![1] = NoReq]
    /\ loc' = [loc EXCEPT ![1] = NoLoc]
    /\ res' = [res EXCEPT ![1] = NoRes]
    /\ UNCHANGED <<now, ticks, pending, verified, pendingLock, verifiedLock,
                   nextCid, nextUuid, consumed, minted>>
    /\ UNCHANGED <<sent, calls, solverVars, netVars>>

\* one step of the agent's first handshake, of the worker that serves it or
\* of the connection between them; the peers being interchangeable, the
\* agent is alice
HandshakeStep ==
    \/ Authenticate /\ calls = 0 /\ cl'.peer_id = "alice"
    \/ ChallengeDelivered
    \/ Serve
    \/ ChallengeReturned
    \/ SolveAndSubmit
    \/ SolvePanics
    \/ VerifyDelivered
    \/ VerifyReturned
    \/ VerifyRejected
    \/ VerifyAccepted
    \/ AuthReturn

\* the id of the challenge issued to the agent, once its entry is stored
Issued ==
    IF got # << >> THEN got[1].body.challenge_id
    ELSE IF req[1].op = "request_challenge"
              /\ pc[1] \in {"rc_insert_held", "done"}
    THEN loc[1].challenge_id
    ELSE UnknownCid

\* everybody else, on worker p: while the handshake is under way another
\* peer requests a challenge of its own (and sweeps the pending map), or
\* submits the agent's challenge id while it is pending
Others(p) ==
    \/ /\ cl.pc \in {"await_challenge", "challenge_received", "await_verify"}
       /\ StartRequestChallenge(p)
    \/ CleanupPending(p)
    \/ CleanupPendingUnlock(p)
    \/ CleanupVerified(p)
    \/ CleanupVerifiedUnlock(p)
    \/ RequestInsert(p)
    \/ RequestInsertUnlock(p)
    \/ /\ Issued \in DOMAIN pending
       /\ VerifyRemove(p)
       /\ req'[p].challenge_id = Issued
       /\ req'[p].peer_id # cl.peer_id
    \/ VerifyRemoveUnlock(p)
    \/ Return(p)

\* the handshake among everybody else's requests; the clock advances while
\* the agent solves and while it holds its result, between the relay's
\* requests
NextHandshake ==
    \/ cl.pc \in {"challenge_received", "returned"} /\ QuiescentTick
    \/ HandshakeStep
    \/ \E p \in Workers \ {1} : Others(p)

\* ---- the agent's network: start_network and stop_network ----------------
\* Each handler call is a task of the runtime; tasks run in parallel and
\* interleave between the steps below.  The handle sits behind a RwLock that
\* is_running, set_handle and stop_network each take for one access, so
\* each access is one step.

\* POST /api/network/start: the identity is locked => PermissionDenied;
\* is_running() reads the handle under the read lock => Ok(()) at once when
\* a handle is stored
StartNetwork(c) ==
    /\ netCall[c].pc = "idle"
    /\ services + Cardinality({w \in Workers : netCall[w].pc = "create"})
          < MaxServices
    /\ \E is_unlocked \in BOOLEAN :
          netCall' = [netCall EXCEPT ![c] =
                      IF ~is_unlocked
                      THEN [@ EXCEPT !.pc = "done",
                                     !.result = "PermissionDenied"]
                      ELSE IF handle.some
                      THEN [@ EXCEPT !.pc = "done", !.result = "Ok"]
                      ELSE [@ EXCEPT !.pc = "create"]]
    /\ UNCHANGED <<handle, services, running>>
    /\ UNCHANGED <<relayVars, clientVars, solverVars>>

\* the keys, the keypair and NetworkService::new(..)?: an error leaves the
\* handler; otherwise a new service and its handle exist
CreateService(c) ==
    /\ netCall[c].pc = "create"
    /\ \E created \in BOOLEAN :
          IF created
          THEN /\ services' = services + 1
               /\ netCall' = [netCall EXCEPT ![c] =
                               [@ EXCEPT !.pc = "set_handle",
                                         !.service = services + 1]]
          ELSE /\ services' = services
               /\ netCall' = [netCall EXCEPT ![c] =
                               [@ EXCEPT !.pc = "done", !.result = "Err"]]
    /\ UNCHANGED <<handle, running>>
    /\ UNCHANGED <<relayVars, clientVars, solverVars>>

\* state.network.set_handle(handle): *guard = Some(handle) under the write
\* lock; then the service is spawned and the handler returns Ok(())
SetHandle(c) ==
    /\ netCall[c].pc = "set_handle"
    /\ handle' = Some(netCall[c].service)
    /\ running' = running \cup {netCall[c].service}
    /\ netCall' = [netCall EXCEPT ![c] =
                       [@ EXCEPT !.pc = "done", !.result = "Ok"]]
    /\ UNCHANGED services
    /\ UNCHANGED <<relayVars, clientVars, solverVars>>

\* POST /api/network/stop: guard.take() under the write lock; None => Ok(())
StopNetwork(c) ==
    /\ netCall[c].pc = "idle"
    /\ handle' = None
    /\ netCall' = [netCall EXCEPT ![c] =
                    IF handle.some
                    THEN [@ EXCEPT !.pc = "shutdown",
                                   !.service = handle.value]
                    ELSE [@ EXCEPT !.pc = "done", !.result = "Ok"]]
    /\ UNCHANGED <<services, running>>
    /\ UNCHANGED <<relayVars, clientVars, solverVars>>

\* handle.shutdown().await?: the service of the handle taken stops
Shutdown(c) ==
    /\ netCall[c].pc = "shutdown"
    /\ running' = running \ {netCall[c].service}
    /\ \E result \in {"Ok", "Err"} :
          netCall' = [netCall EXCEPT ![c] =
                      [@ EXCEPT !.pc = "done", !.result = result]]
    /\ UNCHANGED <<handle, services>>
    /\ UNCHANGED <<relayVars, clientVars, solverVars>>

\* the handler's reply leaves the task
NetworkReturn(c) ==
    /\ netCall[c].pc = "done"
    /\ netCall' = [netCall EXCEPT ![c] =
                    [pc |-> "idle", service |-> 0, result |-> "none"]]
    /\ UNCHANGED <<handle, services, running>>
    /\ UNCHANGED <<relayVars, clientVars, solverVars>>

NetworkStep(c) ==
    \/ StartNetwork(c)
    \/ CreateService(c)
    \/ SetHandle(c)
    \/ StopNetwork(c)
    \/ Shutdown(c)
    \/ NetworkReturn(c)

\* every worker and the agent may step and the clock may advance at any
\* point
Next ==
    \/ Tick
    \/ \E p \in Workers : Step(p)
    \/ ClientStep
    \/ \E c \in Workers : NetworkStep(c)

\* one request at a time, the clock advancing at any point of its handler
NextSerial == Tick \/ Step(1)

\* requests overlap in every way, the clock advancing between them
NextConc == QuiescentTick \/ \E p \in Workers : Step(p)

Spec == Init /\ [][Next]_vars

\* Every behaviour of SpecSerial and of SpecConc is a behaviour of Spec (each
\* of their next-state relations implies Next); they are the parts of it
\* that are explored exhaustively.
SpecSerial == Init /\ [][NextSerial]_vars

SpecConc == Init /\ [][NextConc]_vars

\* the agent alone, against an endpoint that may answer anything
SpecClient == InitClient /\ [][ClientStep]_vars

\* solve_pattern applied to one sequence
SpecPattern == InitPattern /\ [][SolvePattern]_vars

\* answer_question applied to one question
SpecQuestion == InitQuestion /\ [][AnswerQuestion]_vars

\* solve_challenge applied to one challenge
SpecChallenge == InitChallenge /\ [][SolveChallenge]_vars

\* start_network and stop_network calls, overlapping in every way
SpecNetwork == Init /\ [][\E c \in Workers : NetworkStep(c)]_vars

\* The handshake.  The runtime keeps polling every task that can run: the
\* agent's call once started, the connection, and every handler that has
\* started (weak fairness of the other workers' steps).  A handler waiting
\* for a lock gets it although others take and release the lock meanwhile,
\* tokio's RwLock queueing its waiters (strong fairness of the steps of the
\* handshake).
SpecHandshake ==
    /\ InitClient
    /\ [][NextHandshake]_vars
    /\ SF_vars(HandshakeStep /\ cl.pc # "idle")
    /\ \A p \in Workers \ {1} : WF_vars(pc[p] # "idle" /\ Others(p))

\* ---- properties ---------------------------------------------------------
Verifying(p) == req[p].op = "verify_challenge"

TtlTicks == TOKEN_TTL_SECS * TicksPerSec

\* C1: once a verify attempt has found the pending entry of a challenge id,
\* the id is not pending any more, and every verify attempt that takes the
\* pending lock afterwards finds nothing, is answered 404 "Challenge not
\* found or expired" and mints no token.
C1_ConsumedOnce ==
    /\ \A r \in consumed : r.cid \notin DOMAIN pending
    /\ \A p \in Workers :
          (Verifying(p) /\ loc[p].late) =>
              /\ ~loc[p].entry_found
              /\ loc[p].token = NoToken
              /\ pc[p] \in {"v_remove_held", "done"}
              /\ (pc[p] = "done" =>
                     /\ res[p].status = NOT_FOUND
                     /\ res[p].error = "Challenge not found or expired"
                     /\ res[p].token = NoToken)

C1_Witness ==
    \E p \in Workers :
        /\ pc[p] = "done" /\ Verifying(p) /\ loc[p].late
        /\ res[p].status = NOT_FOUND
        /\ \E m \in minted : m.cid = req[p].challenge_id

\* C2: of the verify attempts naming one challenge id, at most one finds the
\* pending entry, whatever the interleaving; an attempt that does not find it
\* is answered 404; and at most one token is ever minted per challenge id.
C2_OneWinner ==
    /\ \A p, q \in Workers :
          (/\ p # q /\ Verifying(p) /\ Verifying(q)
           /\ req[p].challenge_id = req[q].challenge_id)
              => ~(loc[p].entry_found /\ loc[q].entry_found)
    /\ \A p \in Workers :
          (Verifying(p) /\ pc[p] = "done" /\ ~loc[p].entry_found)
              => (res[p].status = NOT_FOUND /\ res[p].token = NoToken)
    /\ \A c \in 0 .. nextCid :
          /\ Cardinality({r \in consumed : r.cid = c}) <= 1
          /\ Cardinality({m \in minted : m.cid = c}) <= 1

\* two attempts on one id overlap: the loser is answered 404 while the winner
\* is storing its token
C2_Witness ==
    \E p, q \in Workers :
        /\ p # q /\ Verifying(p) /\ Verifying(q)
        /\ req[p].challenge_id = req[q].challenge_id
        /\ pc[p] = "v_insert_held" /\ loc[p].entry_found
        /\ pc[q] = "done" /\ res[q].status = NOT_FOUND

\* C3: a verify attempt by a peer other than the requester of the challenge
\* is answered 403 "Peer ID mismatch" without consulting the oracle, mints no
\* token and consumes the challenge: a later attempt with the same id, also
\* by the requester, is answered 404.
C3_PeerMismatch ==
    /\ \A p \in Workers :
          (/\ Verifying(p) /\ loc[p].entry_found
           /\ loc[p].entry_peer # req[p].peer_id) =>
              /\ req[p].challenge_id \notin DOMAIN pending
              /\ loc[p].oracle = "none"
              /\ loc[p].token = NoToken
              /\ pc[p] \in {"v_remove_held", "done"}
              /\ (pc[p] = "done" =>
                     /\ res[p].status = FORBIDDEN
                     /\ res[p].error = "Peer ID mismatch"
                     /\ res[p].token = NoToken)
    /\ \A p \in Workers :
          (Verifying(p) /\ loc[p].lateMismatch) =>
              /\ ~loc[p].entry_found
              /\ (pc[p] = "done" =>
                     res[p].status = NOT_FOUND /\ res[p].token = NoToken)
    /\ \A r \in consumed :
          r.owner # r.by => \A m \in minted : m.cid # r.cid

\* the requester retries the id a stranger has burnt
C3_Witness ==
    \E p \in Workers :
        /\ pc[p] = "done" /\ Verifying(p) /\ loc[p].lateMismatch
        /\ res[p].status = NOT_FOUND
        /\ \E r \in consumed :
              /\ r.cid = req[p].challenge_id
              /\ r.owner = req[p].peer_id
              /\ r.by # r.owner

\* C4: a verify attempt on a challenge whose age has reached CHALLENGE_TTL
\* is answered 404 and yields no token.
C4_ExpiredIsNotFound ==
    \A p \in Workers :
        (pc[p] = "done" /\ Verifying(p) /\ loc[p].stale) =>
            (res[p].status = NOT_FOUND /\ res[p].token = NoToken)

\* C5: the token map gains an entry only in the insert step of a verify
\* attempt that found the pending entry, whose peer matched and whose oracle
\* verdict was Ok; every other step of a verify attempt leaves the token map
\* as it is, and a failure reply carries no token.
C5_TokenOnlyOnSuccess ==
    [][ /\ (verified' # verified) =>
              \/ /\ DOMAIN verified' \subseteq DOMAIN verified
                 /\ \A k \in DOMAIN verified' : verified'[k] = verified[k]
              \/ \E p \in Workers :
                    /\ pc[p] = "v_insert" /\ pc'[p] = "v_insert_held"
                    /\ loc[p].entry_found
                    /\ loc[p].entry_peer = req[p].peer_id
                    /\ loc[p].oracle = "ok"
                    /\ verified' = MapInsert(verified, loc[p].token,
                                             verified'[loc[p].token])
        /\ \A p \in Workers :
              (/\ pc'[p] # pc[p]
               /\ Verifying(p) \/ req'[p].op = "verify_challenge"
               /\ pc[p] # "v_insert") => verified' = verified
        /\ \A p \in Workers :
              (/\ pc'[p] = "done" /\ pc[p] # "done"
               /\ Verifying(p) /\ res'[p].status # OK) =>
                  /\ res'[p].token = NoToken
                  /\ loc[p].token = NoToken
      ]_vars

\* the oracle rejects a response while an earlier token stays in place
C5_Witness ==
    \E p \in Workers :
        /\ pc[p] = "done" /\ Verifying(p) /\ loc[p].oracle = "err"
        /\ res[p].status = FORBIDDEN /\ res[p].token = NoToken
        /\ Cardinality(DOMAIN verified) = 1

\* C6: a successful verify reply carries expires_in_seconds = TOKEN_TTL, the
\* submitting peer_id and the minted token; a check_token on that token at
\* the instant of its verified_at answers valid, the same peer_id and
\* remaining_seconds = TOKEN_TTL.
C6_FreshToken ==
    /\ \A p \in Workers :
          (pc[p] = "done" /\ Verifying(p) /\ res[p].status = OK) =>
              /\ res[p].expires_in_seconds = TOKEN_TTL_SECS
              /\ res[p].peer_id = req[p].peer_id
              /\ \E m \in minted :
                    /\ m.token = res[p].token
                    /\ m.peer_id = req[p].peer_id
                    /\ m.cid = req[p].challenge_id
    /\ \A q \in Workers :
          pc[q] = "ct_held" =>
              \A m \in minted :
                  (m.token = req[q].token /\ loc[q].at = m.verified_at) =>
                      /\ res[q].valid
                      /\ res[q].peer_id = m.peer_id
                      /\ res[q].remaining_seconds = TOKEN_TTL_SECS

C6_Witness ==
    \E q \in Workers :
        /\ pc[q] = "ct_held"
        /\ \E m \in minted :
              /\ m.token = req[q].token /\ loc[q].at = m.verified_at
              /\ m.verified_at > 0
        /\ res[q].valid /\ res[q].remaining_seconds = TOKEN_TTL_SECS

\* C7: is_peer_verified(p) is true exactly when the token map holds an entry
\* of peer p less than TOKEN_TTL old at the time of the call.
C7_IsPeerVerifiedIff ==
    \A p \in Workers :
        pc[p] = "ipv_held" =>
            (res[p].verified <=>
                \E k \in DOMAIN verified :
                    /\ verified[k].peer_id = req[p].peer_id
                    /\ loc[p].at - verified[k].verified_at < TtlTicks)

\* true thanks to a second, younger token while the first one is expired
C7_Witness ==
    \E p \in Workers :
        /\ pc[p] = "ipv_held" /\ res[p].verified
        /\ \E k \in DOMAIN verified :
              /\ verified[k].peer_id = req[p].peer_id
              /\ loc[p].at - verified[k].verified_at >= TtlTicks

\* C8: check_token answers valid, the stored peer_id and TOKEN_TTL minus the
\* age in whole seconds exactly when the token is stored and less than
\* TOKEN_TTL old; otherwise it answers invalid, no peer_id and 0.
C8_CheckTokenExact ==
    \A p \in Workers :
        pc[p] = "ct_held" =>
            LET t == req[p].token
                r == res[p].remaining_seconds
            IN IF t \in DOMAIN verified
                  /\ loc[p].at - verified[t].verified_at < TtlTicks
               THEN LET d == loc[p].at - verified[t].verified_at IN
                    /\ res[p].valid
                    /\ res[p].peer_id = verified[t].peer_id
                    /\ (TOKEN_TTL_SECS - r) * TicksPerSec <= d
                    /\ d < (TOKEN_TTL_SECS - r + 1) * TicksPerSec
               ELSE /\ ~res[p].valid
                    /\ res[p].peer_id = NoPeer
                    /\ r = 0

\* the last instant of validity: one second remains
C8_Witness ==
    \E p \in Workers :
        /\ pc[p] = "ct_held" /\ res[p].valid
        /\ res[p].remaining_seconds = 1
        /\ loc[p].at - verified[req[p].token].verified_at = TtlTicks - 1

\* C9: a token still stored TOKEN_TTL or more after its verified_at is
\* reported invalid by check_token, and is_peer_verified is false for a peer
\* all of whose stored tokens are that old.
C9_LogicalExpiry ==
    /\ \A p \in Workers :
          (/\ pc[p] = "ct_held" /\ req[p].token \in DOMAIN verified
           /\ loc[p].at - verified[req[p].token].verified_at >= TtlTicks)
              => (~res[p].valid /\ res[p].remaining_seconds = 0)
    /\ \A p \in Workers :
          (/\ pc[p] = "ipv_held"
           /\ \A k \in DOMAIN verified :
                 verified[k].peer_id = req[p].peer_id =>
                     loc[p].at - verified[k].verified_at >= TtlTicks)
              => ~res[p].verified

C9_Witness ==
    \E p \in Workers :
        /\ pc[p] = "ct_held" /\ req[p].token \in DOMAIN verified
        /\ loc[p].at - verified[req[p].token].verified_at = TtlTicks
        /\ ~res[p].valid

\* C10: no step of check_token or is_peer_verified changes the pending map
\* or the token map.
C10_ReadsDoNotWrite ==
    [][ \A p \in Workers :
            (\/ pc[p] = "idle" /\ pc'[p] \in {"ct_held", "ipv_held"}
             \/ pc[p] \in {"ct_held", "ipv_held"} /\ pc'[p] # pc[p])
                => (pending' = pending /\ verified' = verified)
      ]_vars

\* is_peer_verified has said no because of an expired token that is still
\* stored
C10_Witness ==
    \E p \in Workers :
        /\ pc[p] = "ipv_held" /\ ~res[p].verified
        /\ \E k \in DOMAIN verified : verified[k].peer_id = req[p].peer_id

ChallengeTtlTicks == CHALLENGE_TTL_SECS * TicksPerSec

Requesting(p) == req[p].op = "request_challenge"

\* the sweep of worker p has passed its first block, its second block
PendingSwept(p) ==
    /\ Requesting(p)
    /\ pc[p] \in {"cl_pending_held", "cl_verified", "cl_verified_held",
                  "rc_insert", "rc_insert_held", "done"}

VerifiedSwept(p) ==
    /\ Requesting(p)
    /\ pc[p] \in {"cl_verified_held", "rc_insert", "rc_insert_held", "done"}

\* C11: once the sweep of a request_challenge has passed, no pending entry
\* whose age at the sweep's time is CHALLENGE_TTL or more is stored, and once
\* its second block has passed no token whose age at the sweep's time is
\* TOKEN_TTL or more is stored.
C11_SweepPurges ==
    \A p \in Workers :
        /\ PendingSwept(p) =>
              \A c \in DOMAIN pending :
                  loc[p].cl_now - pending[c].issued_at < ChallengeTtlTicks
        /\ VerifiedSwept(p) =>
              \A k \in DOMAIN verified :
                  loc[p].cl_now - verified[k].verified_at < TtlTicks

\* the sweep is over and an earlier challenge nobody tried to verify is gone
C11_Witness ==
    \E p \in Workers :
        /\ pc[p] = "rc_insert"
        /\ \E c \in 1 .. (loc[p].challenge_id - 1) :
              c \notin DOMAIN pending /\ c \notin ConsumedIds

\* the two sweeping steps of cleanup
SweepsPending(p) == pc[p] = "cl_pending" /\ pc'[p] = "cl_pending_held"

SweepsVerified(p) == pc[p] = "cl_verified" /\ pc'[p] = "cl_verified_held"

\* C12: as stated, the sweep leaves every pending entry whose age does not
\* exceed CHALLENGE_TTL and every token whose age does not exceed TOKEN_TTL
\* stored and unchanged.
C12_KeepsNotExceeding ==
    [][ \A p \in Workers :
          /\ SweepsPending(p) =>
                \A c \in DOMAIN pending :
                    loc[p].cl_now - pending[c].issued_at <= ChallengeTtlTicks
                        => (c \in DOMAIN pending' /\ pending'[c] = pending[c])
          /\ SweepsVerified(p) =>
                \A k \in DOMAIN verified :
                    loc[p].cl_now - verified[k].verified_at <= TtlTicks
                        => (k \in DOMAIN verified'
                            /\ verified'[k] = verified[k])
      ]_vars

\* C12: amended, the sweep leaves every pending entry whose age is less than
\* CHALLENGE_TTL and every token whose age is less than TOKEN_TTL stored and
\* unchanged.
C12_KeepsYounger ==
    [][ \A p \in Workers :
          /\ SweepsPending(p) =>
                \A c \in DOMAIN pending :
                    loc[p].cl_now - pending[c].issued_at < ChallengeTtlTicks
                        => (c \in DOMAIN pending' /\ pending'[c] = pending[c])
          /\ SweepsVerified(p) =>
                \A k \in DOMAIN verified :
                    loc[p].cl_now - verified[k].verified_at < TtlTicks
                        => (k \in DOMAIN verified'
                            /\ verified'[k] = verified[k])
      ]_vars

\* the sweep has kept a challenge one tick short of CHALLENGE_TTL
C12_Witness ==
    \E p \in Workers :
        /\ pc[p] = "cl_pending_held"
        /\ \E c \in DOMAIN pending :
              loc[p].cl_now - pending[c].issued_at = ChallengeTtlTicks - 1

\* the step of a verify attempt that takes the entry of challenge c, if any
VerifyRemoves(p, c) ==
    /\ pc[p] = "idle" /\ pc'[p] = "v_remove_held"
    /\ req'[p].challenge_id = c

InsertsPending(p) == pc[p] = "rc_insert" /\ pc'[p] = "rc_insert_held"

InsertsVerified(p) == pc[p] = "v_insert" /\ pc'[p] = "v_insert_held"

\* C13: entries leave the pending map only in the sweep of a
\* request_challenge or in the removal of the verify attempt naming them, and
\* tokens leave the token map only in the sweep of a request_challenge; the
\* challenge id is generated and the entry stored only by a request_challenge
\* whose sweep is over.  So no step of verify_challenge, check_token or
\* is_peer_verified sweeps, and expired entries stay stored until the next
\* request_challenge.
C13_SweepOnlyInRequest ==
    [][ /\ \A c \in DOMAIN pending :
              c \notin DOMAIN pending' =>
                  \E p \in Workers :
                      \/ Requesting(p) /\ SweepsPending(p)
                      \/ VerifyRemoves(p, c)
        /\ \A k \in DOMAIN verified :
              k \notin DOMAIN verified' =>
                  \E p \in Workers : Requesting(p) /\ SweepsVerified(p)
        /\ nextCid' # nextCid =>
              \E p \in Workers : VerifiedSwept(p) /\ pc'[p] = "rc_insert"
        /\ \A c \in DOMAIN pending' :
              c \notin DOMAIN pending =>
                  \E p \in Workers :
                      /\ VerifiedSwept(p) /\ InsertsPending(p)
                      /\ loc[p].challenge_id = c
      ]_vars

\* a check_token is answered while an expired challenge and an expired token
\* are both still stored
C13_Witness ==
    \E p \in Workers :
        /\ pc[p] = "ct_held"
        /\ \E c \in DOMAIN pending :
              loc[p].at - pending[c].issued_at >= ChallengeTtlTicks
        /\ \E k \in DOMAIN verified :
              loc[p].at - verified[k].verified_at >= TtlTicks

\* C14: the challenge id stored by a request_challenge is not pending and
\* has never been pending, and storing it leaves every other pending entry
\* as it is, so two requests of one peer hold two distinct pending ids; a
\* verify attempt removes at most the entry of the id it names, whatever its
\* outcome, and leaves every other pending entry, also of the same peer, as
\* it is.
C14_IndependentChallenges ==
    [][ \A p \in Workers :
          /\ InsertsPending(p) =>
                /\ loc[p].challenge_id \notin DOMAIN pending
                /\ loc[p].challenge_id \notin ConsumedIds
                /\ loc[p].challenge_id \in DOMAIN pending'
                /\ \A c \in DOMAIN pending :
                      c \in DOMAIN pending' /\ pending'[c] = pending[c]
          /\ (\E c \in 0 .. nextCid : VerifyRemoves(p, c)) =>
                \A c \in DOMAIN pending \ {req'[p].challenge_id} :
                    c \in DOMAIN pending' /\ pending'[c] = pending[c]
          /\ (Verifying(p) /\ pc'[p] # pc[p]) => pending' = pending
      ]_vars

\* a verify attempt has just taken one of two challenges of the same peer
\* that were pending together, and the other one is still pending
C14_Witness ==
    \E p \in Workers :
        /\ pc[p] = "v_remove_held" /\ loc[p].entry_found
        /\ \E c \in DOMAIN pending :
              /\ c # req[p].challenge_id
              /\ pending[c].peer_id = loc[p].entry_peer

\* the worker that has generated challenge id c and not stored it yet
Unstored(c) ==
    \E p \in Workers : pc[p] = "rc_insert" /\ loc[p].challenge_id = c

\* challenge id c has been pending and is not any more
Retired(c) ==
    /\ c \in 1 .. (nextCid - 1)
    /\ c \notin DOMAIN pending
    /\ ~Unstored(c)

\* C15: a pending challenge id leaves the pending map in exactly one way:
\* the removal of a verify attempt naming it, which always takes it, or a
\* sweep that finds it CHALLENGE_TTL old; once it has left it is never
\* pending again, a later verify attempt naming it finds nothing, an id that
\* was swept never gets a verification outcome, and a token is minted only
\* for the one attempt that took the entry, at most once per id.
C15_OneWayOut ==
    [][ \A c \in 1 .. MaxChallenges :
          LET byVerify == \E p \in Workers :
                              VerifyRemoves(p, c) /\ loc'[p].entry_found
              bySweep == \E p \in Workers :
                            /\ Requesting(p) /\ SweepsPending(p)
                            /\ loc[p].cl_now - pending[c].issued_at
                                   >= ChallengeTtlTicks
          IN
          /\ (c \in DOMAIN pending /\ c \notin DOMAIN pending') =>
                (byVerify # bySweep)
          /\ (c \in DOMAIN pending /\ \E p \in Workers : VerifyRemoves(p, c))
                => (byVerify /\ c \notin DOMAIN pending')
          /\ Retired(c) =>
                /\ c \notin DOMAIN pending' /\ ~Unstored(c)'
                /\ \A p \in Workers :
                      VerifyRemoves(p, c) => ~loc'[p].entry_found
                /\ (c \in ConsumedIds' <=> c \in ConsumedIds)
                /\ Cardinality({r \in consumed' : r.cid = c}) <= 1
          /\ \A m \in minted' \ minted :
                m.cid = c =>
                    /\ \A m2 \in minted : m2.cid # c
                    /\ \E r \in consumed : r.cid = c /\ r.by = r.owner
      ]_vars

\* a challenge that was swept is named by a verify attempt, which is
\* answered 404
C15_Witness ==
    \E p \in Workers :
        /\ pc[p] = "done" /\ Verifying(p)
        /\ res[p].status = NOT_FOUND
        /\ Retired(req[p].challenge_id)
        /\ req[p].challenge_id \notin ConsumedIds

\* C16: storing a new token leaves every token already stored, also of the
\* same peer, in place and unchanged, under a key no stored token has; and
\* check_token reports a minted token valid exactly while its own age is
\* below TOKEN_TTL, whatever other tokens the peer holds.
C16_TokensCoexist ==
    [][ \A p \in Workers :
          /\ InsertsVerified(p) =>
                /\ loc[p].token \notin DOMAIN verified
                /\ loc[p].token \in DOMAIN verified'
                /\ \A k \in DOMAIN verified :
                      k \in DOMAIN verified' /\ verified'[k] = verified[k]
          /\ pc'[p] = "ct_held" =>
                \A m \in minted' :
                    m.token = req'[p].token =>
                        (res'[p].valid <=>
                            loc'[p].at - m.verified_at < TtlTicks)
      ]_vars

\* the older of two tokens of one peer is checked and found valid
C16_Witness ==
    \E p \in Workers :
        /\ pc[p] = "ct_held" /\ res[p].valid
        /\ \E k \in DOMAIN verified :
              /\ k # req[p].token
              /\ verified[k].peer_id = res[p].peer_id
              /\ verified[k].verified_at
                     > verified[req[p].token].verified_at

\* the verify attempt that took challenge c was made by its requester
PassedOwn(c, peer_id) ==
    \E r \in consumed : r.cid = c /\ r.owner = peer_id /\ r.by = peer_id

\* C17: every stored token was minted for a challenge taken by the peer
\* that requested it, and carries that peer_id; a valid check_token reply
\* names that peer, and is_peer_verified is true only of a peer for whom such
\* a token was minted.
C17_TokenBoundToRequester ==
    /\ \A k \in DOMAIN verified :
          \E m \in minted :
              /\ m.token = k
              /\ PassedOwn(m.cid, verified[k].peer_id)
    /\ \A p \in Workers :
          (pc[p] = "ct_held" /\ res[p].valid) =>
              \E m \in minted :
                  m.token = req[p].token /\ PassedOwn(m.cid, res[p].peer_id)
    /\ \A p \in Workers :
          (pc[p] = "ipv_held" /\ res[p].verified) =>
              \E m \in minted : PassedOwn(m.cid, req[p].peer_id)

\* a token is checked and found valid after another peer has burnt a
\* challenge that was not its own
C17_Witness ==
    \E p \in Workers :
        /\ pc[p] = "ct_held" /\ res[p].valid
        /\ \E r \in consumed : r.by # r.owner /\ r.by # res[p].peer_id

\* C18: the oracle's verify is never called with a response whose answer
\* list is not aligned with the task list of the challenge.
C18_MisalignedNeverReachesOracle ==
    \A p \in Workers :
        (Verifying(p) /\ ~req[p].aligned) => loc[p].oracle = "none"

\* the reply carries none of the expected answers in any of its text fields
\* and has no field beyond those of the handlers' reply types
NoAnswersIn(reply) ==
    /\ DOMAIN reply = DOMAIN NoRes
    /\ reply.error \notin ExpectedAnswers
    /\ reply.peer_id \notin ExpectedAnswers
    /\ reply.token.peer \notin ExpectedAnswers

C20_TwoRoundTrips ==
    [][ /\ Len(sent') <= 2
        /\ Len(got') <= Len(sent')
        /\ Len(sent') >= 1 =>
              /\ sent'[1].path = "/auth/challenge"
              /\ sent'[1].peer_id = cl'.peer_id
        /\ Len(sent') = 2 =>
              /\ sent'[2].path = "/auth/verify"
              /\ Len(got') >= 1
              /\ got'[1].status >= 200 /\ got'[1].status <= 299
              /\ got'[1].body \in ChallengeBodies
              /\ sent'[2].peer_id = sent'[1].peer_id
              /\ sent'[2].challenge_id = got'[1].body.challenge_id
        /\ Len(sent') > Len(sent) =>
              /\ Len(sent') = Len(sent) + 1
              /\ cl.pc \in {"idle", "challenge_received"}
              /\ \A i \in 1 .. Len(sent) : sent'[i] = sent[i]
        /\ cl.pc = "returned" => (sent' = sent \/ sent' = << >>)
      ]_vars

\* the verify request was answered 403 and the call has returned the error
C20_Witness ==
    /\ cl.pc = "returned"
    /\ Len(sent) = 2 /\ Len(got) = 2
    /\ got[2].status = FORBIDDEN
    /\ ~cl.result.ok

\* the reply the agent received last in this call
LastReply == got[Len(got)]

SuccessStatus(status) == status >= 200 /\ status <= 299

\* C21: when authenticate has returned, its result is Ok with a token
\* exactly when both requests were answered with a success status, the first
\* with a body that decodes to a challenge and the second with a body that
\* decodes to a token reply, and the token is the one of that body; in every
\* other case the result is an error without a token: for an unanswered
\* request a transport error, for a non-success status the error carrying
\* that status and that body, for an undecodable body a parse error.
C21_TokenOnlyAfterTwoSuccesses ==
    cl.pc = "returned" =>
        LET r == cl.result IN
        /\ r.ok <=>
              /\ Len(got) = 2
              /\ SuccessStatus(got[1].status) /\ got[1].body \in ChallengeBodies
              /\ SuccessStatus(got[2].status) /\ got[2].body \in TokenBodies
        /\ r.ok => (r.token = got[2].body.token /\ r.error = "")
        /\ ~r.ok =>
              /\ r.token = NoToken
              /\ r.error # ""
              /\ Len(got) < Len(sent) =>
                    r.error = IF Len(sent) = 1
                              THEN "Failed to request challenge"
                              ELSE "Failed to submit verification"
              /\ (Len(got) = Len(sent) /\ ~SuccessStatus(LastReply.status)) =>
                    /\ r.status = LastReply.status
                    /\ r.body = LastReply.body
                    /\ r.error = IF Len(got) = 1
                                 THEN "Challenge request failed"
                                 ELSE "Verification failed"
              /\ (Len(got) = Len(sent) /\ SuccessStatus(LastReply.status)) =>
                    r.error = IF Len(got) = 1
                              THEN "Failed to parse challenge"
                              ELSE "Failed to parse verification result"

\* the verify request was answered 200 with a body that is no token reply,
\* and the call has returned a parse error
C21_Witness ==
    /\ cl.pc = "returned" /\ ~cl.result.ok
    /\ Len(got) = 2 /\ got[2].status = OK
    /\ got[2].body \notin TokenBodies
    /\ cl.result.error = "Failed to parse verification result"

\* ---- properties of solve_pattern ----------------------------------------
\* the call of solve_pattern under way has ended, with a panic or a value
PatternDone == called = "solve_pattern" /\ ret # NotCalled

\* the call returned n values, and value(k) is the k-th of them
Predicts(n, value(_)) ==
    /\ ret.outcome = "return"
    /\ Len(ret.value) = n
    /\ \A k \in 1 .. n : ret.value[k] = value(k)

\* C24: for a sequence with fewer than two given values, solve_pattern
\* returns exactly predict_count predictions and every one of them is zero,
\* whatever the given value is.
C24_ShortGivesZeros ==
    (PatternDone /\ Len(arg.given) < 2) =>
        LET zero(k) == 0 IN Predicts(arg.predict_count, zero)

\* a single non-zero given value, two predictions asked for and returned
C24_Witness ==
    /\ PatternDone
    /\ Len(arg.given) = 1 /\ arg.given[1] # 0
    /\ arg.predict_count = 2
    /\ ret.outcome = "return"

\* the last given value
Last == arg.given[Len(arg.given)]

\* the first differences of the given values, as integers
FirstDiff(i) == arg.given[i + 1] - arg.given[i]

\* the given values have one constant first difference
ConstantFirstDiff ==
    /\ Len(arg.given) >= 2
    /\ \A i \in 1 .. Len(arg.given) - 1 : FirstDiff(i) = FirstDiff(1)

SecondDiff(i) == FirstDiff(i + 1) - FirstDiff(i)

\* the given values are not arithmetic but have one constant second
\* difference
ConstantSecondDiff ==
    /\ Len(arg.given) >= 3
    /\ ~ConstantFirstDiff
    /\ \A i \in 1 .. Len(arg.given) - 2 : SecondDiff(i) = SecondDiff(1)

\* the given values followed by the returned ones
Extended == arg.given \o ret.value

\* the extended sequence has the constant second difference d2: each of its
\* first differences is the one before it plus d2
ExtendedQuadratic(d2) ==
    \A i \in 1 .. Len(Extended) - 2 :
        (Extended[i + 2] - Extended[i + 1])
            = (Extended[i + 1] - Extended[i]) + d2

\* the running first difference after k steps, and the value it leads to
QuadraticDiff(k) == FirstDiff(Len(arg.given) - 1) + k * SecondDiff(1)

RECURSIVE QuadraticTerm(_)
QuadraticTerm(k) ==
    IF k = 0 THEN Last ELSE QuadraticTerm(k - 1) + QuadraticDiff(k)

NeitherArithmeticNorQuadratic ==
    /\ Len(arg.given) >= 2
    /\ ~ConstantFirstDiff
    /\ ~ConstantSecondDiff

\* all values are non-zero and consecutive ratios agree within 0.001
RatiosWithinTolerance ==
    /\ \A i \in 1 .. Len(arg.given) : arg.given[i] # 0
    /\ LET ratio(i) == f64_div(f64_from(arg.given[i + 1]),
                               f64_from(arg.given[i]))
       IN \A i \in 1 .. Len(arg.given) - 2 :
              LET diff == f64_sub(ratio(i), ratio(i + 1))
              IN f64_lt([diff EXCEPT !.m = Abs(diff.m)], Tolerance)

\* the first and second differences of the given values are i64 values
DiffsInRange ==
    /\ \A i \in 1 .. Len(arg.given) - 1 : InRange(FirstDiff(i))
    /\ \A i \in 1 .. Len(arg.given) - 2 : InRange(SecondDiff(i))

\* last * r^k in f64, r being the first f64 ratio
RECURSIVE GeometricTerm(_)
GeometricTerm(k) ==
    IF k = 0 THEN f64_from(Last)
    ELSE f64_mul(GeometricTerm(k - 1),
                 f64_div(f64_from(arg.given[2]), f64_from(arg.given[1])))

\* n is the i64 nearest to the f64 a, a half counting away from zero and a
\* value beyond the i64 range as the end of the range
Nearest(n, a) ==
    IF a.m = 0 THEN n = 0
    ELSE IF a.e >= IntBits THEN n = (IF a.m < 0 THEN i64_MIN ELSE i64_MAX)
    ELSE IF a.e >= 0 THEN n = saturating(a.m * Pow2(a.e))
    ELSE IF -a.e > SigBits + 1 THEN n = 0
    ELSE LET unit == Pow2(-a.e)
         IN /\ 2 * Abs(n) * unit <= 2 * Abs(a.m) + unit
            /\ 2 * Abs(a.m) + unit < 2 * Abs(n) * unit + 2 * unit
            /\ (n = 0 \/ Sign(n) = Sign(a.m))

\* the returned values are the rounded terms last * r^k
GeometricRounded ==
    /\ ret.outcome = "return"
    /\ Len(ret.value) = arg.predict_count
    /\ \A k \in 1 .. arg.predict_count :
           Nearest(ret.value[k], GeometricTerm(k))

\* the given values are exactly geometric with the integer ratio q
ExactlyGeometric(q) ==
    \A i \in 1 .. Len(arg.given) - 1 : arg.given[i + 1] = q * arg.given[i]

RECURSIVE Power(_, _)
Power(q, k) == IF k = 0 THEN 1 ELSE q * Power(q, k - 1)

\* the integer ratios a sequence of i64 values can have
IntegerRatios == i64_MIN .. i64_MAX

\* every integer up to this magnitude is an f64
MaxExact == Pow2(SigBits)

FibonacciLike(xs) ==
    \A i \in 1 .. Len(xs) - 2 : xs[i + 2] = xs[i] + xs[i + 1]

\* a rule before the Fibonacci-like one matches the given values
EarlierRuleMatches ==
    \/ ConstantFirstDiff
    \/ ConstantSecondDiff
    \/ RatiosWithinTolerance

RECURSIVE FibonacciTerm(_)
FibonacciTerm(k) ==
    IF k = -1 THEN arg.given[Len(arg.given) - 1]
    ELSE IF k = 0 THEN Last
    ELSE FibonacciTerm(k - 2) + FibonacciTerm(k - 1)

QuestionDone == called = "answer_question" /\ ret # NotCalled

\* the integer result of a op b, the quotient cut toward zero
Result(a, op, b) ==
    IF op \in {"*", MultiplicationSign} THEN a * b
    ELSE IF op = "/" THEN Sign(a) * Sign(b) * (Abs(a) \div Abs(b))
    ELSE IF op = "+" THEN a + b
    ELSE a - b

\* C29: for every question made of two integers, either of which may be
\* negative, separated by one of the operators *, U+00D7, /, +, -, with or
\* without the "what is" framing in any letter case and the trailing "?",
\* answer_question returns the decimal string of the integer result,
\* provided the divisor is not zero.  It is stated here for operands and
\* results that are i64 values only.
C29_ArithmeticAnswered ==
    (/\ QuestionDone /\ arg.kind = "arithmetic"
     /\ ~(arg.op = "/" /\ arg.b = 0)
     /\ InRange(arg.a) /\ InRange(arg.b)
     /\ InRange(Result(arg.a, arg.op, arg.b)))
    => ret = Returned(to_string(Result(arg.a, arg.op, arg.b)))

\* C30: a division question "a / 0", for any integer a, with or without
\* the framing, never yields a numeric answer: try_arithmetic returns None
\* and answer_question, no fact of the table matching, returns "unknown".
C30_DivisionByZeroUnanswered ==
    (/\ QuestionDone /\ arg.kind = "arithmetic"
     /\ arg.op = "/" /\ arg.b = 0)
    => /\ try_arithmetic(to_lowercase(Text(arg)), overflow_checks)
              = Returned(None)
       /\ ret = Returned(<<"u", "n", "k", "n", "o", "w", "n">>)

\* "What Is -12 / 0?" has been answered "unknown"
C30_Witness ==
    /\ QuestionDone /\ arg.kind = "arithmetic"
    /\ arg.op = "/" /\ arg.b = 0 /\ arg.a = -12
    /\ arg.framing # << >> /\ arg.framing[1] = "W" /\ arg.mark /\ arg.spaced
    /\ ret = Returned(<<"u", "n", "k", "n", "o", "w", "n">>)

\* ---- properties of solve_challenge ---------------------------------------
\* the call of solve_challenge under way has ended
ChallengeDone == called = "solve_challenge" /\ ret # NotCalled

\* the response answers the challenge task by task: its id is the
\* challenge's, it has one answer per task, and the i-th answer is of the
\* variant of the i-th task
Mirrors(response, challenge) ==
    /\ response.challenge_id = challenge.challenge_id
    /\ Len(response.answers) = Len(challenge.tasks)
    /\ \A i \in 1 .. Len(challenge.tasks) :
           response.answers[i].kind = challenge.tasks[i].kind

\* C23: for every task list, solve_challenge returns a response with the
\* challenge's id, with as many answers as there are tasks, the i-th answer
\* being of the variant of the i-th task.
C23_ResponseMirrorsTasks ==
    ChallengeDone => (ret.outcome = "return" /\ Mirrors(ret.value, arg))

\* C23: what remains true, every response that solve_challenge does return
\* mirrors the tasks.
C23_MirrorsWhenReturned ==
    (ChallengeDone /\ ret.outcome = "return") => Mirrors(ret.value, arg)

\* ---- the handshake, end to end -------------------------------------------
\* the agent's challenge request is being served
Delivered == cl.pc = "await_challenge" /\ req[1].op = "request_challenge"

\* the agent's entry has left the pending map, swept or taken by somebody
\* else's submission, before the agent's own submission found it
Lost ==
    /\ cl.pc \in {"await_challenge", "challenge_received", "await_verify"}
    /\ Issued # UnknownCid
    /\ Issued \notin DOMAIN pending
    /\ ~(req[1].op = "verify_challenge" /\ loc[1].entry_found)

\* the solver has no answers, or the verification of the agent's answers
\* has not ended with Ok
Declined ==
    \/ cl.pc = "panicked"
    \/ /\ req[1].op = "verify_challenge"
       /\ pc[1] = "done"
       /\ res[1].error \in {"Verification failed", "Internal error"}

\* the handshake has ended with a token
Ended == cl.pc = "returned" /\ cl.result.ok /\ cl.result.token # NoToken

\* the token the agent holds admits it until TOKEN_TTL has elapsed since
\* the verification
Admitted ==
    \E m \in minted :
        /\ m.token = cl.result.token
        /\ m.peer_id = cl.peer_id
        /\ NumSeconds(now - m.verified_at) < TOKEN_TTL_SECS
             => /\ is_peer_verified(verified, now, cl.peer_id)
                /\ CheckTokenReply(verified, now, cl.result.token).valid
                /\ CheckTokenReply(verified, now, cl.result.token).peer_id
                       = cl.peer_id

\* C22: once the agent's challenge request is being served, the handshake
\* ends with a token unless the agent's entry is lost (swept, or submitted
\* by somebody else) or its answers are declined; and while the agent holds
\* the token, is_peer_verified(peer) is true and check_token(token) is valid
\* for the peer until TOKEN_TTL has elapsed
C22_EndToEnd ==
    /\ Delivered ~> (Ended \/ Lost \/ Declined)
    /\ [](Ended => Admitted)

\* C22: the agent holds a token while somebody else has been issued a
\* challenge too, and the token admits the agent
C22_Witness ==
    /\ Ended
    /\ nextCid > 2
    /\ now > 0
    /\ is_peer_verified(verified, now, cl.peer_id)
    /\ CheckTokenReply(verified, now, cl.result.token).valid

\* ---- C31: the oracle is called outside the locks -------------------------

\* worker p holds no lock of either region
HoldsNoLock(p) ==
    /\ pendingLock # p
    /\ verifiedLock.writer # p
    /\ p \notin verifiedLock.readers

\* C31: verify_challenge calls the oracle while holding no lock: the write
\* lock on pending is released before verify starts, and the write lock on
\* verified is taken by a verification only after verify has returned Ok
C31_OracleOutsideLocks ==
    \A p \in Workers :
        /\ pc[p] = "v_oracle" => HoldsNoLock(p)
        /\ req[p].op = "verify_challenge" /\ pendingLock = p
              => loc[p].oracle = "none"
        /\ req[p].op = "verify_challenge" /\ verifiedLock.writer = p
              => loc[p].oracle = "ok"

\* C31: one worker is inside the oracle call while another request holds
\* the write lock on pending
C31_Witness ==
    \E p, q \in Workers :
        /\ p # q
        /\ pc[p] = "v_oracle"
        /\ pendingLock = q

\* ---- C33: one lock at a time, no deadlock --------------------------------

\* worker p holds a lock of the verified region, as writer or as reader
HoldsVerified(p) == verifiedLock.writer = p \/ p \in verifiedLock.readers

\* C33: no worker holds the lock on pending and a lock on verified at the
\* same time, and whenever a request is under way some request under way
\* can take its next step
C33_OneLockNoDeadlock ==
    /\ \A p \in Workers : ~(pendingLock = p /\ HoldsVerified(p))
    /\ (\E p \in Workers : pc[p] # "idle")
          => ENABLED (\E p \in Workers : pc[p] # "idle" /\ Step(p))

\* C33: both regions are locked at once, by two different requests, one of
\* them a cleanup sweep
C33_Witness ==
    \E p, q \in Workers :
        /\ p # q
        /\ pendingLock = p
        /\ verifiedLock.writer = q
        /\ pc[q] = "cl_verified_held"

\* ---- C34: the sweep of tokens is unobservable ---------------------------

\* the token map as it would be had no sweep ever removed an entry: every
\* token inserted so far, with its peer and its verified_at
Unswept ==
    [t \in MintedTokens |->
        LET m == CHOOSE x \in minted : x.token = t
        IN [peer_id |-> m.peer_id, verified_at |-> m.verified_at]]

\* C34: at every time, for every token and every peer, check_token and
\* is_peer_verified answer on the stored token map what they would answer on
\* the map no sweep has touched; and so does every reply actually given
C34_SweepUnobservable ==
    /\ \A t \in MintedTokens \cup {BogusToken} :
          CheckTokenReply(verified, now, t) = CheckTokenReply(Unswept, now, t)
    /\ \A peer \in Peers :
          is_peer_verified(verified, now, peer)
              <=> is_peer_verified(Unswept, now, peer)
    /\ \A p \in Workers :
          /\ pc[p] = "ct_held" =>
                LET r == CheckTokenReply(Unswept, loc[p].at, req[p].token)
                IN /\ res[p].valid = r.valid
                   /\ res[p].peer_id = r.peer_id
                   /\ res[p].remaining_seconds = r.remaining_seconds
          /\ pc[p] = "ipv_held" =>
                (res[p].verified
                    <=> is_peer_verified(Unswept, loc[p].at, req[p].peer_id))

\* C34: check_token has answered for a token that a sweep has removed from
\* the map, while another token is still stored
C34_Witness ==
    \E p \in Workers :
        /\ pc[p] = "ct_held"
        /\ req[p].token \in MintedTokens \ DOMAIN verified
        /\ DOMAIN verified # {}

\* ---- C35: the range of remaining_seconds ---------------------------------

\* C35: a check_token reply with valid = true has 0 < remaining_seconds <=
\* TOKEN_TTL, and one with valid = false has remaining_seconds = 0
C35_RemainingInRange ==
    \A p \in Workers :
        pc[p] = "ct_held" =>
            IF res[p].valid
            THEN /\ 0 < res[p].remaining_seconds
                 /\ res[p].remaining_seconds <= TOKEN_TTL_SECS
            ELSE res[p].remaining_seconds = 0

\* C35: both ends of the range: a token checked later than its verified_at
\* but within the same second, and one checked in its last second
C35_Witness ==
    /\ \E p \in Workers :
          /\ pc[p] = "ct_held" /\ res[p].valid
          /\ res[p].remaining_seconds = 1
    /\ \E m \in minted :
          /\ 0 < m.verified_at
          /\ now > m.verified_at
          /\ CheckTokenReply(verified, m.verified_at + 1, m.token)
                 .remaining_seconds = TOKEN_TTL_SECS

\* ---- C36: validity is monotone -------------------------------------------

\* check_token would answer valid for the token now
ValidNow(t) == CheckTokenReply(verified, now, t).valid

\* C36: a token value for which check_token answers valid = false, having
\* been minted before or never, is answered valid = false after every step
C36_ValidityMonotone ==
    [][ \A t \in MintedTokens \cup {BogusToken} :
            ~ValidNow(t) => ~ValidNow(t)' ]_vars

\* C36: a peer's first token has expired and is still stored while the same
\* peer holds a second, valid token
C36_Witness ==
    \E t, u \in DOMAIN verified :
        /\ verified[t].peer_id = verified[u].peer_id
        /\ ~ValidNow(t)
        /\ ValidNow(u)

\* ---- C32, C37, C38: the order of the pattern rules ------------------------

\* the first and second differences of the given values as the build
\* computes them, on i64
WrappedDiff(i) == wrapping(arg.given[i + 1] - arg.given[i])

WrappedSecondDiff(i) == wrapping(WrappedDiff(i + 1) - WrappedDiff(i))

\* the predicates of the four rules over the entire given sequence
ArithmeticHolds ==
    \A i \in 1 .. Len(arg.given) - 1 : WrappedDiff(i) = WrappedDiff(1)

QuadraticHolds ==
    \A i \in 1 .. Len(arg.given) - 2 :
        WrappedSecondDiff(i) = WrappedSecondDiff(1)

GeometricHolds == RatiosWithinTolerance

FibonacciHolds ==
    /\ Len(arg.given) >= 3
    /\ \A i \in 1 .. Len(arg.given) - 2 :
          arg.given[i + 2] = wrapping(arg.given[i] + arg.given[i + 1])

\* the k-th value each rule continues the given values with, on i64
ArithmeticValue(k) == wrapping(Last + k * WrappedDiff(1))

QuadraticValue(k) ==
    wrapping(Last + k * WrappedDiff(Len(arg.given) - 1)
                  + ((k * (k + 1)) \div 2) * WrappedSecondDiff(1))

FibonacciValue(k) == wrapping(FibonacciTerm(k))

FallbackValue(k) == wrapping(Last + k * WrappedDiff(Len(arg.given) - 1))

\* the returned values are those of the geometric rule
GeometricValues ==
    /\ ret.outcome = "return"
    /\ ret.value = Scale(f64_from(Last), Ratios(arg.given)[1],
                         arg.predict_count)

\* C32: the predictions returned for two or more given values are those of
\* the first rule, in the order arithmetic, quadratic, geometric,
\* Fibonacci-like, whose predicate holds over all the given values, whatever
\* later predicates hold; they are those of the last-difference fallback
\* only when none of the four holds
C32_FirstMatchDecides ==
    (PatternDone /\ Len(arg.given) >= 2 /\ ret.outcome = "return") =>
        IF ArithmeticHolds
        THEN Predicts(arg.predict_count, ArithmeticValue)
        ELSE IF QuadraticHolds
        THEN Predicts(arg.predict_count, QuadraticValue)
        ELSE IF GeometricHolds
        THEN GeometricValues
        ELSE IF FibonacciHolds
        THEN Predicts(arg.predict_count, FibonacciValue)
        ELSE Predicts(arg.predict_count, FallbackValue)

\* C32: 1, 1, 2 has a constant second difference and is Fibonacci-like; it
\* is continued by 4 and 7, not by 3 and 5
C32_Witness ==
    /\ PatternDone
    /\ arg.given = <<1, 1, 2>> /\ arg.predict_count = 2
    /\ QuadraticHolds /\ FibonacciHolds /\ ~ArithmeticHolds
    /\ ret = Returned(<<4, 7>>)

\* C37: for every PatternSequence the call returns exactly predict_count
\* predictions
C37_ExactlyPredictCount ==
    PatternDone =>
        /\ ret.outcome = "return"
        /\ Len(ret.value) = arg.predict_count

\* every call that returns, returns exactly predict_count predictions
C37_CountWhenReturned ==
    (PatternDone /\ ret.outcome = "return") =>
        Len(ret.value) = arg.predict_count

\* C38: three given values are answered by the arithmetic rule or else by
\* the quadratic rule, never by the geometric rule, the Fibonacci-like rule
\* or the fallback
C38_ThreeValuesQuadratic ==
    (PatternDone /\ Len(arg.given) = 3) =>
        /\ Rule(arg.given) \in {"arithmetic", "quadratic"}
        /\ ret.outcome = "return" =>
              IF ArithmeticHolds
              THEN Predicts(arg.predict_count, ArithmeticValue)
              ELSE Predicts(arg.predict_count, QuadraticValue)

\* C38: the geometric run 2, 4, 8 is continued by 14 and 22, not by 16 and
\* 32
C38_Witness ==
    /\ PatternDone
    /\ arg.given = <<2, 4, 8>> /\ arg.predict_count = 2
    /\ GeometricHolds
    /\ ret = Returned(<<14, 22>>)

\* ---- C39: one network service per running period -----------------------

\* C39: while a handle is stored no step creates a network service and no
\* step replaces the stored handle by another one
C39_OneServicePerPeriod ==
    [][ handle.some =>
            /\ services' = services
            /\ handle' \in {handle, None} ]_vars

====
